---- MODULE Spec2Model ----
(***************************************************************************)
(* A model of the Paperspace report pipeline (src/paperspace):             *)
(*   - CloudStorage (utils/cloud_storage.py): the timestamped save         *)
(*     operations and the "latest" queries, over an explicit file system;  *)
(*   - CloudPipeline.run_command (pipeline_cloud.py): one child process,   *)
(*     its merged output pipe, the read loop and the timed wait;           *)
(*   - CloudPipeline.run (pipeline_cloud.py): the stage sequencer with the *)
(*     Part B retry loop, the background service it spawns, and the exit   *)
(*     status main() gives the process;                                    *)
(*   - CloudStorage.setup_directories: the directory layout.               *)
(*   - preprocess_company_folder over the files of a data directory;       *)
(*   - handle_submission (webhook_server_cloud.py) on concurrent worker    *)
(*     threads, with the CloudLogger instances (utils/cloud_logging.py)    *)
(*     and the Google Drive staging directory they share;                  *)
(*   - the pure functions _slugify and parse_use_cases_count.              *)
(* Each part has its own specification over the shared variables.          *)
(***************************************************************************)
EXTENDS Integers, Sequences, FiniteSets, TLC

VARIABLES
    \* ---- file system and clock (CloudStorage) ----
    files,      \* set of directory entries [dir, name, content, mtime, link]
    now,        \* the wall clock, in ticks of the modification-time resolution
    slug,       \* CloudStorage.company_slug, as its "_"-separated tokens
    saved,      \* history: one snapshot per artifact written by a save_* call
    canSymlink, \* whether os.symlink works on this platform / file system
    lastOp,     \* name of the storage operation that ran last
    ret,        \* value returned (or exception raised) by the last operation
    \* ---- one call of run_command ----
    rcPhase,    \* "idle", "reading" (the readline loop), "waiting"
                \* (process.wait), "returned" or "raised"
    rcArgs,     \* the call's arguments [cmd, cwdOk, timeout]
    child,      \* the child process [state, stdoutOpen, code, wrote, start, end]
    pipe,       \* lines written to the merged stdout/stderr pipe, not yet read
    output_lines, \* the lines run_command kept
    printed,    \* the lines run_command forwarded with print()
    waitStart,  \* the clock when process.wait(timeout) was entered
    rcExc,      \* the exception run_command caught, or "none"
    rcResult,   \* the pair run_command returned
    \* ---- one execution of CloudPipeline.run ----
    pc,         \* the stage method run() calls next; "done" after it returned
    status,     \* "running", then "succeeded" (True) or "failed" (False)
    events,     \* what the run emitted so far: step events, commands
                \* launched, sleeps, warnings and errors, and the return of
                \* each stage method
    attempt,    \* loop variable of run_part_b
    attempts,   \* history: the result of each Part B draft attempt
    vector_store_id, \* the id run() holds, NoId for None
    failedAt,   \* the stage whose failure ended the run, or "none"
    service,    \* the background service start_mcp_server spawned: "none",
                \* "running" or "exited"
    sys_exit,   \* exit status of the pipeline process, -1 while it runs
    \* ---- the webhook server process ----
    workers,    \* the submission each worker thread handles: its position in
                \* handle_submission and its local variables
    root_handlers, \* logging.getLogger().handlers, the list all CloudLogger
                \* instances of the process share
    emitted     \* the records the console handlers wrote to stdout

storageVars == <<files, slug, saved, canSymlink, lastOp, ret>>
cmdVars == <<rcPhase, rcArgs, child, pipe, output_lines, printed, waitStart, rcExc, rcResult>>
runVars == <<pc, status, events, attempt, attempts, vector_store_id, failedAt, service,
             sys_exit>>
webVars == <<workers, root_handlers, emitted>>
vars == <<now, storageVars, cmdVars, runVars, webVars>>

-----------------------------------------------------------------------------
(* Bounds of the model *)

MaxTime == 3          \* the clock stops advancing here
TicksPerSec == 2      \* clock ticks per wall-clock second
MaxDelay == 1         \* ticks that may pass between utcnow() and the write
MaxSaves == 2         \* artifacts written in one behaviour
MaxCmdTimeout == 2    \* largest timeout argument of run_command, in ticks
MaxLines == 2         \* lines a child process writes

Contents == {"a", "b"}
VectorIds == {"vs_1"}
ReportTypes == {"enhanced"}
Slugs == {<<"acme">>, <<"latest">>}

-----------------------------------------------------------------------------
(* File names.  A name is its "_"-separated tokens and its extension.      *)

Name(tok, ext) == [tok |-> tok, ext |-> ext]
NoName == Name(<<>>, "")

\* datetime.utcnow().strftime("%Y%m%d_%H%M%S"): the clock cut to the second
Timestamp(t) == ToString(t \div TicksPerSec)

FinalReportName(s, ts) == Name(<<"FINAL", "REPORT">> \o s \o <<ts>>, "md")
ReadySignalName(s, ts) == Name(<<"FINAL", "REPORT">> \o s \o <<ts>>, "ready")
DraftName(s, ts)       == Name(<<"report", "draft">> \o s \o <<ts>>, "md")
LatestLinkName(s)      == Name(<<"report", "draft", "latest">> \o s, "md")
PartBReportName(type, s, ts) == Name(<<"report", type>> \o s \o <<ts>>, "md")
VectorFileName(ts)     == Name(<<"vector", ts>>, "json")

\* glob patterns  "<prefix>_*.<ext>"
Pattern(prefix, ext) == [prefix |-> prefix, ext |-> ext]
FinalReportGlob(s) == Pattern(<<"FINAL", "REPORT">> \o s, "md")
DraftGlob(s)       == Pattern(<<"report", "draft">> \o s, "md")
VectorGlob         == Pattern(<<"vector">>, "json")

\* fnmatch of a name against "<prefix>_*.<ext>": the literal prefix is
\* followed by "_", so it matches whole leading tokens with at least one
\* more token after them
GlobMatch(pat, name) ==
    /\ name.ext = pat.ext
    /\ Len(name.tok) > Len(pat.prefix)
    /\ SubSeq(name.tok, 1, Len(pat.prefix)) = pat.prefix

-----------------------------------------------------------------------------
(* The file system: directory entries, symlinks one directory deep.        *)

FinalDir == "final"
PartADir == "part_a"
PartBDir == "part_b"
VectorIdsDir == "vector_ids"

Text(c) == [text |-> c]
NoContent == [none |-> TRUE]

Entry(dir, name, content, mtime, link) ==
    [dir |-> dir, name |-> name, content |-> content, mtime |-> mtime, link |-> link]

Present(fs, dir, name) == \E f \in fs : f.dir = dir /\ f.name = name
Lookup(fs, dir, name) == CHOOSE f \in fs : f.dir = dir /\ f.name = name
IsSymlink(fs, dir, name) == Present(fs, dir, name) /\ Lookup(fs, dir, name).link # NoName

\* the entry a path resolves to, following a symlink to its target
Target(fs, dir, name) ==
    IF IsSymlink(fs, dir, name) THEN Lookup(fs, dir, name).link ELSE name

\* Path.exists(): follows the symlink, False for a dangling one
Exists(fs, dir, name) ==
    /\ Present(fs, dir, name)
    /\ Present(fs, dir, Target(fs, dir, name))
    /\ ~IsSymlink(fs, dir, Target(fs, dir, name))

\* Path.stat().st_mtime and read_text(), defined when Exists
StatMtime(fs, dir, name) == Lookup(fs, dir, Target(fs, dir, name)).mtime
ReadText(fs, dir, name) == Lookup(fs, dir, Target(fs, dir, name)).content

Unlink(fs, dir, name) == {f \in fs : ~(f.dir = dir /\ f.name = name)}

\* open(path, 'w') and write: creates the file or truncates the one there
WriteFile(fs, dir, name, content, t) ==
    LET n == Target(fs, dir, name) IN
    Unlink(fs, dir, n) \cup {Entry(dir, n, content, t, NoName)}

\* os.symlink(target, link)
Symlink(fs, dir, target, link, t) ==
    fs \cup {Entry(dir, link, NoContent, t, target)}

\* Path.glob(pattern): the names in dir that match, dangling links included
Glob(fs, dir, pat) == {f.name : f \in {g \in fs : g.dir = dir /\ GlobMatch(pat, g.name)}}

\* shutil.copy(src, dst): the content only, with a fresh modification time
CopyFile(fs, dir, src, dst, t) == WriteFile(fs, dir, dst, ReadText(fs, dir, src), t)

-----------------------------------------------------------------------------
(* Values returned by the storage operations *)

PathOf(dir, name) == [kind |-> "path", dir |-> dir, name |-> name]
None == [kind |-> "none"]
Raised(exc) == [kind |-> "raise", exc |-> exc]

\* the orders in which a directory listing (os.scandir) may yield a set
Listings(S) ==
    {l \in [1..Cardinality(S) -> S] : \A i, j \in 1..Cardinality(S) : i # j => l[i] # l[j]}

\* list.sort(key=lambda x: x.stat().st_mtime, reverse=True): a stable sort, so
\* entries of equal modification time keep the order of the listing
RECURSIVE InsertDesc(_, _, _, _)
InsertDesc(fs, dir, x, sorted) ==
    IF sorted = <<>> THEN <<x>>
    ELSE IF StatMtime(fs, dir, Head(sorted)) >= StatMtime(fs, dir, x)
         THEN <<Head(sorted)>> \o InsertDesc(fs, dir, x, Tail(sorted))
         ELSE <<x>> \o sorted

RECURSIVE SortByMtimeDesc(_, _, _)
SortByMtimeDesc(fs, dir, listing) ==
    IF listing = <<>> THEN <<>>
    ELSE InsertDesc(fs, dir, listing[Len(listing)],
                    SortByMtimeDesc(fs, dir, SubSeq(listing, 1, Len(listing) - 1)))

\* "sort newest first and take [0]" over one listing; stat() of a dangling
\* symlink raises FileNotFoundError out of the sort
NewestOf(fs, dir, listing) ==
    IF \E i \in 1..Len(listing) : ~Exists(fs, dir, listing[i])
    THEN Raised("FileNotFoundError")
    ELSE PathOf(dir, SortByMtimeDesc(fs, dir, listing)[1])

-----------------------------------------------------------------------------
(* CloudStorage operations *)

Snapshot(dir, name, content, mtime) ==
    [dir |-> dir, name |-> name, content |-> content, mtime |-> mtime]

\* a save_final_report that writes nothing
FinalReportNotSaved(fs, s, c, t0, t) == fs

\* save_final_report(content), called at clock t0 with its writes landing at
\* t: the report, then the ready signal holding the report's path
FinalReportSaved(fs, s, c, t0, t) ==
    LET timestamp == Timestamp(t0)
        final_file == FinalReportName(s, timestamp)
        signal_file == ReadySignalName(s, timestamp)
        fs1 == WriteFile(fs, FinalDir, final_file, Text(c), t)
    IN  WriteFile(fs1, FinalDir, signal_file, [path |-> PathOf(FinalDir, final_file)], t)

SaveFinalReport(c) ==
    /\ Len(saved) < MaxSaves
    /\ \E d \in 0..MaxDelay :
        /\ now + d <= MaxTime
        /\ files' = FinalReportSaved(files, slug, c, now, now + d)
        /\ now' = now + d
        /\ saved' = Append(saved, Snapshot(FinalDir, FinalReportName(slug, Timestamp(now)),
                                           Text(c), now + d))
        /\ ret' = PathOf(FinalDir, FinalReportName(slug, Timestamp(now)))
    /\ lastOp' = "save_final_report"
    /\ UNCHANGED <<slug, canSymlink, webVars>>

\* a save_part_a_draft that leaves a pointer file that is there alone
SavePartADraftKeepingPointer(c) ==
    /\ Len(saved) < MaxSaves
    /\ \E d \in 0..MaxDelay :
        /\ now + d <= MaxTime
        /\ LET draft_file == DraftName(slug, Timestamp(now))
               latest_link == LatestLinkName(slug)
               t == now + d
               fs1 == WriteFile(files, PartADir, draft_file, Text(c), t)
           IN  /\ files' = IF Present(fs1, PartADir, latest_link) THEN fs1
                           ELSE IF canSymlink
                           THEN Symlink(fs1, PartADir, draft_file, latest_link, t)
                           ELSE CopyFile(fs1, PartADir, draft_file, latest_link, t)
               /\ now' = t
               /\ saved' = Append(saved, Snapshot(PartADir, draft_file, Text(c), t))
               /\ ret' = PathOf(PartADir, draft_file)
    /\ lastOp' = "save_part_a_draft"
    /\ UNCHANGED <<slug, canSymlink, webVars>>

\* save_part_a_draft(content)
SavePartADraft(c) ==
    /\ Len(saved) < MaxSaves
    /\ \E d \in 0..MaxDelay :
        /\ now + d <= MaxTime
        /\ LET timestamp == Timestamp(now)
               draft_file == DraftName(slug, timestamp)
               latest_link == LatestLinkName(slug)
               t == now + d
               fs1 == WriteFile(files, PartADir, draft_file, Text(c), t)
               fs2 == IF Exists(fs1, PartADir, latest_link)
                         \/ IsSymlink(fs1, PartADir, latest_link)
                      THEN Unlink(fs1, PartADir, latest_link)
                      ELSE fs1
               fs3 == IF canSymlink
                      THEN Symlink(fs2, PartADir, draft_file, latest_link, t)
                      ELSE CopyFile(fs2, PartADir, draft_file, latest_link, t)
           IN  /\ files' = fs3
               /\ now' = t
               /\ saved' = Append(saved, Snapshot(PartADir, draft_file, Text(c), t))
               /\ ret' = PathOf(PartADir, draft_file)
    /\ lastOp' = "save_part_a_draft"
    /\ UNCHANGED <<slug, canSymlink, webVars>>

\* save_part_b_report(content, report_type)
SavePartBReport(c, type) ==
    /\ Len(saved) < MaxSaves
    /\ \E d \in 0..MaxDelay :
        /\ now + d <= MaxTime
        /\ LET timestamp == Timestamp(now)
               report_file == PartBReportName(type, slug, timestamp)
               t == now + d
           IN  /\ files' = WriteFile(files, PartBDir, report_file, Text(c), t)
               /\ now' = t
               /\ saved' = Append(saved, Snapshot(PartBDir, report_file, Text(c), t))
               /\ ret' = PathOf(PartBDir, report_file)
    /\ lastOp' = "save_part_b_report"
    /\ UNCHANGED <<slug, canSymlink, webVars>>

\* the JSON document save_vector_store_id dumps
\* json.load accepts the content
IsJson(content) == "vector_store_id" \in DOMAIN content

VectorJson(id, s, timestamp) ==
    [vector_store_id |-> id, company_slug |-> s, timestamp |-> timestamp]

\* save_vector_store_id(vector_store_id), called at clock t0, written at t
VectorStoreIdSaved(fs, s, id, t0, t) ==
    WriteFile(fs, VectorIdsDir, VectorFileName(Timestamp(t0)),
              VectorJson(id, s, Timestamp(t0)), t)

SaveVectorStoreId(id) ==
    /\ Len(saved) < MaxSaves
    /\ \E d \in 0..MaxDelay :
        /\ now + d <= MaxTime
        /\ files' = VectorStoreIdSaved(files, slug, id, now, now + d)
        /\ now' = now + d
        /\ saved' = Append(saved, Snapshot(VectorIdsDir, VectorFileName(Timestamp(now)),
                                           VectorJson(id, slug, Timestamp(now)), now + d))
        /\ ret' = PathOf(VectorIdsDir, VectorFileName(Timestamp(now)))
    /\ lastOp' = "save_vector_store_id"
    /\ UNCHANGED <<slug, canSymlink, webVars>>

\* a query that finds nothing, whatever storage holds
LatestVectorStoreIdIgnored(fs, listing) == None

\* get_latest_vector_store_id() over one directory listing: the id recorded
\* in the newest vector_*.json, None when there is no such file
LatestVectorStoreId(fs, listing) ==
    IF listing = <<>> THEN None
    ELSE LET newest == NewestOf(fs, VectorIdsDir, listing)
         IN  IF newest.kind = "raise" THEN newest
             ELSE LET data == ReadText(fs, VectorIdsDir, newest.name) IN
                  IF ~IsJson(data) THEN Raised("JSONDecodeError")
                  ELSE [kind |-> "id", id |-> data.vector_store_id]

\* get_latest_part_a_draft() over one listing of the drafts
LatestPartADraft(fs, s, listing) ==
    IF Exists(fs, PartADir, LatestLinkName(s)) THEN PathOf(PartADir, LatestLinkName(s))
    ELSE IF listing # <<>> THEN NewestOf(fs, PartADir, listing)
    ELSE None

\* get_latest_final_report()
GetLatestFinalReport ==
    /\ LET reports == Glob(files, FinalDir, FinalReportGlob(slug))
       IN  IF reports # {}
           THEN \E listing \in Listings(reports) : ret' = NewestOf(files, FinalDir, listing)
           ELSE ret' = None
    /\ lastOp' = "get_latest_final_report"
    /\ UNCHANGED <<files, now, slug, saved, canSymlink, webVars>>

\* get_latest_part_a_draft()
GetLatestPartADraft ==
    /\ \E listing \in Listings(Glob(files, PartADir, DraftGlob(slug))) :
          ret' = LatestPartADraft(files, slug, listing)
    /\ lastOp' = "get_latest_part_a_draft"
    /\ UNCHANGED <<files, now, slug, saved, canSymlink, webVars>>

-----------------------------------------------------------------------------
(* The environment of the storage: time passes; programs other than the    *)
(* orchestrator remove entries of the Part A directory.                    *)

Tick ==
    /\ now < MaxTime
    /\ now' = now + 1
    /\ lastOp' = "tick"
    /\ UNCHANGED <<files, slug, saved, canSymlink, webVars, ret>>

ExternalUnlink ==
    /\ \E f \in files :
        /\ f.dir = PartADir
        /\ files' = Unlink(files, f.dir, f.name)
    /\ lastOp' = "external_unlink"
    /\ UNCHANGED <<now, slug, saved, canSymlink, webVars, ret>>

\* the Part A stage program writes a versioned draft itself, leaving the
\* pointer as it is
ProgramWritesDraft(c) ==
    /\ files' = WriteFile(files, PartADir, DraftName(slug, Timestamp(now)), Text(c), now)
    /\ lastOp' = "program_writes_draft"
    /\ UNCHANGED <<now, slug, saved, canSymlink, webVars, ret>>

NoId == ""

\* no pipeline run in progress
RunIdle ==
    /\ pc = "idle"
    /\ status = "running"
    /\ events = <<>>
    /\ attempt = 0
    /\ attempts = <<>>
    /\ vector_store_id = NoId
    /\ failedAt = "none"
    /\ service = "none"
    /\ sys_exit = -1

\* no webhook server in the picture
WebIdle ==
    /\ workers = <<>>
    /\ root_handlers = <<>>
    /\ emitted = {}

\* the storage of a company that has not run yet
StorageEmpty ==
    /\ files = {}
    /\ now = 0
    /\ saved = <<>>
    /\ lastOp = "init"
    /\ ret = None

-----------------------------------------------------------------------------
(* run_command(cmd, cwd, timeout): subprocess.Popen(cmd, shell=True, ...,   *)
(* stdout=PIPE, stderr=STDOUT, text=True), the readline loop, and           *)
(* process.wait(timeout).                                                   *)

\* A line is a sequence of characters; " " is white space.
Chars == {"x", " "}
Lines == {<<>>, <<"x">>, <<"x", " ">>, <<" ", "x">>, <<" ">>}
\* bytes that are not valid text in the locale's encoding
BadBytes == <<"\\377">>
TimeoutText == <<"TIMEOUT">>
ShellNotFoundText == <<"sh: not found">>
ShellPermissionText == <<"sh: Permission denied">>

\* what the command line turns out to be
CmdKinds == {"program", "notfound", "noexec"}
\* exit codes of a program; the shell's own for a command it cannot find
\* (127) or cannot execute (126)
ProgramExitCodes == {0, 1, 2}
ShellExitCode(cmd) == IF cmd = "notfound" THEN 127 ELSE 126
ShellMessage(cmd) == IF cmd = "notfound" THEN ShellNotFoundText ELSE ShellPermissionText

\* str(e) of a caught exception
Describe(exc) == <<exc>>

NoChild == [state |-> "none", stdoutOpen |-> FALSE, code |-> 0, wrote |-> <<>>,
            start |-> 0, end |-> 0]

CmdIdle ==
    /\ rcPhase = "idle"
    /\ rcArgs = [cmd |-> "program", cwdOk |-> TRUE, timeout |-> 1]
    /\ child = NoChild
    /\ pipe = <<>>
    /\ output_lines = <<>>
    /\ printed = <<>>
    /\ waitStart = 0
    /\ rcExc = "none"
    /\ rcResult = [code |-> 0, out |-> <<>>]

\* line.rstrip()
RECURSIVE RStrip(_)
RStrip(line) ==
    IF line = <<>> THEN <<>>
    ELSE IF line[Len(line)] = " " THEN RStrip(SubSeq(line, 1, Len(line) - 1))
    ELSE line

\* '\n'.join(output_lines): no kept line holds a line break, so the text is
\* given by the sequence of its lines
Join(lines) == lines

\* a handler whose second clause is "except OSError" instead of
\* "except Exception": a decoding error of the read loop escapes it
ExceptionHandlerOSErrorOnly(exc) ==
    IF exc = "TimeoutExpired"
    THEN [caught |-> TRUE, kill |-> TRUE, result |-> [code |-> 1, out |-> <<<<"TIMEOUT">>>>]]
    ELSE [caught |-> exc = "OSError", kill |-> FALSE,
          result |-> [code |-> 1, out |-> <<<<exc>>>>]]

\* The except clauses of run_command, in order: subprocess.TimeoutExpired
\* (kill the child, return (1, "TIMEOUT")), then Exception (return
\* (1, str(e))).  Every exception modelled here derives from Exception.
ExceptionHandler(exc) ==
    IF exc = "TimeoutExpired"
    THEN [caught |-> TRUE, kill |-> TRUE, result |-> [code |-> 1, out |-> <<TimeoutText>>]]
    ELSE [caught |-> TRUE, kill |-> FALSE, result |-> [code |-> 1, out |-> <<Describe(exc)>>]]

\* leaving the try block with exception exc
Except(exc) ==
    LET h == ExceptionHandler(exc) IN
    /\ rcExc' = exc
    /\ IF h.caught
       THEN /\ rcPhase' = "returned"
            /\ rcResult' = h.result
            /\ child' = IF h.kill /\ child.state = "running"
                        THEN [child EXCEPT !.state = "killed", !.stdoutOpen = FALSE,
                                            !.end = now]
                        ELSE child
       ELSE /\ rcPhase' = "raised"
            /\ UNCHANGED <<rcResult, child>>

\* the normal return: (exit_code, full_output)
Return(exit_code, lines) ==
    /\ rcPhase' = "returned"
    /\ rcResult' = [code |-> exit_code, out |-> Join(lines)]

\* subprocess.Popen(...): raises OSError when cwd cannot be entered,
\* otherwise the shell is running, whatever the command line is
Popen(cmd, cwdOk, timeout) ==
    /\ rcPhase = "idle"
    /\ rcArgs' = [cmd |-> cmd, cwdOk |-> cwdOk, timeout |-> timeout]
    /\ IF ~cwdOk
       THEN /\ Except("OSError")
            /\ UNCHANGED <<pipe, output_lines, printed, waitStart>>
       ELSE /\ child' = [NoChild EXCEPT !.state = "running", !.stdoutOpen = TRUE,
                                        !.start = now, !.end = now]
            /\ rcPhase' = "reading"
            /\ UNCHANGED <<pipe, output_lines, printed, waitStart, rcExc, rcResult>>
    /\ UNCHANGED <<now, storageVars, webVars>>

\* one iteration of: for line in iter(process.stdout.readline, '')
ReadLine ==
    /\ rcPhase = "reading"
    /\ pipe # <<>>
    /\ pipe' = Tail(pipe)
    /\ IF Head(pipe) = BadBytes
       THEN /\ Except("UnicodeDecodeError")
            /\ UNCHANGED <<output_lines, printed>>
       ELSE LET line == RStrip(Head(pipe)) IN
            /\ IF line # <<>>
               THEN /\ printed' = Append(printed, line)
                    /\ output_lines' = Append(output_lines, line)
               ELSE UNCHANGED <<output_lines, printed>>
            /\ UNCHANGED <<rcPhase, rcExc, rcResult, child>>
    /\ UNCHANGED <<now, storageVars, webVars, rcArgs, waitStart>>

\* readline returns '' (every writer closed the pipe); process.stdout.close();
\* process.wait(timeout=timeout) is entered, and returns at once when the
\* child has already exited
ReadEOF ==
    /\ rcPhase = "reading"
    /\ pipe = <<>>
    /\ ~child.stdoutOpen
    /\ waitStart' = now
    /\ IF child.state = "exited"
       THEN Return(child.code, output_lines)
       ELSE /\ rcPhase' = "waiting"
            /\ UNCHANGED rcResult
    /\ UNCHANGED <<now, storageVars, webVars, rcArgs, child, pipe, output_lines, printed, rcExc>>

\* process.wait returns the exit code
WaitReturn ==
    /\ rcPhase = "waiting"
    /\ child.state = "exited"
    /\ Return(child.code, output_lines)
    /\ UNCHANGED <<now, storageVars, webVars, rcArgs, child, pipe, output_lines, printed,
                   waitStart, rcExc>>

\* process.wait raises TimeoutExpired, timeout after it was entered
WaitTimeout ==
    /\ rcPhase = "waiting"
    /\ child.state = "running"
    /\ now - waitStart >= rcArgs.timeout
    /\ Except("TimeoutExpired")
    /\ UNCHANGED <<now, storageVars, webVars, rcArgs, pipe, output_lines, printed, waitStart>>

(* The child: the shell and the program it runs. *)

ChildWrite(line) ==
    /\ child.state = "running"
    /\ child.stdoutOpen
    /\ Len(child.wrote) < MaxLines
    /\ IF rcArgs.cmd = "program"
       THEN line \in Lines \cup {BadBytes}
       ELSE child.wrote = <<>> /\ line = ShellMessage(rcArgs.cmd)
    /\ pipe' = Append(pipe, line)
    /\ child' = [child EXCEPT !.wrote = Append(@, line)]
    /\ UNCHANGED <<now, storageVars, webVars, rcPhase, rcArgs, output_lines, printed,
                   waitStart, rcExc, rcResult>>

\* the program closes or redirects its output and keeps running
ChildCloseStdout ==
    /\ child.state = "running"
    /\ child.stdoutOpen
    /\ rcArgs.cmd = "program"
    /\ child' = [child EXCEPT !.stdoutOpen = FALSE]
    /\ UNCHANGED <<now, storageVars, webVars, rcPhase, rcArgs, pipe, output_lines, printed,
                   waitStart, rcExc, rcResult>>

ChildExit(code) ==
    /\ child.state = "running"
    /\ IF rcArgs.cmd = "program"
       THEN code \in ProgramExitCodes
       ELSE child.wrote # <<>> /\ code = ShellExitCode(rcArgs.cmd)
    /\ child' = [child EXCEPT !.state = "exited", !.stdoutOpen = FALSE,
                              !.code = code, !.end = now]
    /\ UNCHANGED <<now, storageVars, webVars, rcPhase, rcArgs, pipe, output_lines, printed,
                   waitStart, rcExc, rcResult>>

\* time passes, except past the instant at which process.wait times out; a
\* shell that cannot run the command reports and exits at once
CmdTick ==
    /\ now < MaxTime
    /\ ~(child.state = "running" /\ rcArgs.cmd # "program")
    /\ ~(rcPhase = "waiting" /\ child.state = "running"
         /\ now - waitStart >= rcArgs.timeout)
    /\ now' = now + 1
    /\ UNCHANGED <<storageVars, webVars, cmdVars>>

InitCommand ==
    /\ StorageEmpty
    /\ slug = <<"acme">>
    /\ canSymlink = TRUE
    /\ CmdIdle
    /\ RunIdle
    /\ WebIdle

NextCommand ==
    /\ \/ \E cmd \in CmdKinds, cwdOk \in BOOLEAN, timeout \in 1..MaxCmdTimeout :
              Popen(cmd, cwdOk, timeout)
       \/ ReadLine
       \/ ReadEOF
       \/ WaitReturn
       \/ WaitTimeout
       \/ \E line \in Lines \cup {BadBytes, ShellNotFoundText, ShellPermissionText} :
              ChildWrite(line)
       \/ ChildCloseStdout
       \/ \E code \in ProgramExitCodes \cup {126, 127} : ChildExit(code)
       \/ CmdTick
    /\ UNCHANGED runVars

\* one call of run_command and its child process
SpecCommand == InitCommand /\ [][NextCommand]_vars

-----------------------------------------------------------------------------
(* CloudPipeline.run and the stage methods it calls.  A stage command is    *)
(* one call of run_command: its result is any pair run_command can return,  *)
(* and the stage program may have written files while it ran.               *)

max_retries == 2

\* events
Ev(type, name, n) == [type |-> type, name |-> name, n |-> n]
\* logger.step(number, 10, ...): the number in tenths, so that 6.5 is 65
Step(whole, tenths) == Ev("step", "", whole * 10 + tenths)
Cmd(name) == Ev("cmd", name, 0)
Sleep(seconds) == Ev("sleep", "", seconds)
Warning(msg) == Ev("warning", msg, 0)
Error(msg) == Ev("error", msg, 0)
\* an exception left a stage method
Raise(stage) == Ev("raise", stage, 0)
\* a stage method returned: n = 1 for True (or a value), 0 for False (or None)
Returned(stage, ok) == Ev("return", stage, IF ok THEN 1 ELSE 0)

\* captured outputs: lines of symbols, a marker text being one symbol
TransientOut == << <<"Error code: 500">>, <<"server_error">> >>
StageOutputs == { <<>>, << <<"Error code: 500">> >>, TransientOut, << <<"vs_1">> >> }
RunResults ==
    {[code |-> 0, out |-> o] : o \in StageOutputs}
        \cup {[code |-> 1, out |-> TransientOut],
              [code |-> 2, out |-> << <<"Error code: 500">> >>],
              [code |-> 1, out |-> <<TimeoutText>>],
              [code |-> 1, out |-> <<Describe("OSError")>>]}

\* what run_command logs at error level before it returns res: its two
\* except clauses, lines 155-161
RunCommandLog(res) ==
    IF res = [code |-> 1, out |-> <<TimeoutText>>] THEN <<Error("Command timed out")>>
    ELSE IF res = [code |-> 1, out |-> <<Describe("OSError")>>] THEN <<Error("Command failed")>>
    ELSE <<>>

\* self.run_command(...) of the stage command name, returning res
RunCommand(name, res) == <<Cmd(name)>> \o RunCommandLog(res)

\* marker in output
Contains(out, marker) == \E i \in DOMAIN out : \E j \in DOMAIN out[i] : out[i][j] = marker

\* "Error code: 500" in output and "server_error" in output
ServerError(out) == Contains(out, "Error code: 500") /\ Contains(out, "server_error")

\* re.search(r'vs_[a-zA-Z0-9]+', output)
VsIdIn(out) ==
    IF \E id \in VectorIds : Contains(out, id)
    THEN CHOOSE id \in VectorIds : Contains(out, id)
    ELSE NoId

(* Files the stage programs may leave behind. *)
FinalDualGlob == Pattern(<<"final", "dual", "model", "report">>, "md")
FinalPatchedGlob == Pattern(<<"final", "responses", "patched", "report">>, "md")
FinalConsolidatedGlob == Pattern(<<"final", "consolidated", "report">>, "md")
UseCasesGlob == Pattern(<<"report", "with", "processed", "use", "cases">>, "md")

Written(dir, name, content) == [dir |-> dir, name |-> name, content |-> content]

ProgramWrites(stage, s, t) ==
    LET ts == Timestamp(t) IN
    CASE stage = "vector" ->
            { {}, {Written(VectorIdsDir, VectorFileName(ts), VectorJson("vs_1", s, ts))},
                  {Written(VectorIdsDir, VectorFileName(ts), Text("a"))} }
      [] stage = "part_a" ->
            { {}, {Written(PartADir, DraftName(s, ts), Text("a"))},
                  {Written(PartADir, DraftName(s, ts), Text(""))} }
      [] stage = "use_cases" ->
            { {}, {Written(PartBDir, Name(UseCasesGlob.prefix \o <<ts>>, "md"), Text("a"))} }
      [] stage = "consolidation" ->
            { {}, {Written(FinalDir, Name(FinalDualGlob.prefix \o <<ts>>, "md"), Text("a"))},
                  {Written(FinalDir, Name(FinalConsolidatedGlob.prefix \o <<ts>>, "md"), Text("b"))} }
      [] OTHER -> { {} }

ApplyWrites(fs, W, t) ==
    IF W = {} THEN fs
    ELSE LET w == CHOOSE w \in W : TRUE IN WriteFile(fs, w.dir, w.name, w.content, t)

\* run(): the stage methods in the order they are called
NextStage(stage) ==
    CASE stage = "preprocess" -> "vector"
      [] stage = "vector" -> "mcp"
      [] stage = "mcp" -> "quotes"
      [] stage = "quotes" -> "part_a"
      [] stage = "part_a" -> "part_b"
      [] stage = "part_b" -> "consolidation"
      [] stage = "consolidation" -> "finalize"
      [] stage = "finalize" -> "done"

\* a run that goes on after a stage has returned False
AdvanceIgnoringFailure(stage, ok) ==
    [pc |-> NextStage(stage),
     status |-> IF stage = "finalize" THEN "succeeded" ELSE "running",
     failedAt |-> "none"]

\* a run that a missing vector store id ends like any other failure
AdvanceVectorFatal(stage, ok) ==
    IF ok
    THEN [pc |-> NextStage(stage),
          status |-> IF stage = "finalize" THEN "succeeded" ELSE "running",
          failedAt |-> "none"]
    ELSE [pc |-> "done", status |-> "failed", failedAt |-> stage]

\* run(): "if not self.<stage>(): return False"; a missing vector store id
\* is the one failure the run goes on after
Advance(stage, ok) ==
    IF ok \/ stage = "vector"
    THEN [pc |-> NextStage(stage),
          status |-> IF stage = "finalize" THEN "succeeded" ELSE "running",
          failedAt |-> "none"]
    ELSE [pc |-> "done", status |-> "failed", failedAt |-> stage]

\* a main that reports success whatever run() returned
SysExitAlwaysZero(success) == 0

\* main(): "success = await pipeline.run(); sys.exit(0 if success else 1)"
SysExit(success) == IF success THEN 0 ELSE 1

\* asyncio.run(main()) with an exception leaving run(): nothing catches it,
\* and the interpreter prints the traceback and exits with status 1
UncaughtExit == 1

\* the stage method returned ok after emitting evs, and run() took it from
\* there; when run() returns, main() ends the process
StageReturns(stage, ok, evs) ==
    LET a == Advance(stage, ok) IN
    /\ events' = events \o evs \o <<Returned(stage, ok)>>
                   \o (IF stage = "vector" /\ ~ok
                       THEN <<Warning("Continuing without vector store ID")>> ELSE <<>>)
                   \o (IF a.status = "succeeded"
                       THEN <<Ev("success", "PIPELINE COMPLETE", 0)>> ELSE <<>>)
    /\ pc' = a.pc
    /\ status' = a.status
    /\ failedAt' = a.failedAt
    /\ sys_exit' = IF a.pc = "done" THEN SysExit(a.status = "succeeded") ELSE sys_exit

\* an exception left the stage method after it emitted evs: run()'s handler
\* calls logger.error(..., exc_info=True), CloudLogger.log hands exc_info to
\* logging as a key of extra, and logging refuses the key with a KeyError
StageRaises(stage, evs) ==
    /\ events' = events \o evs \o <<Raise(stage)>>
    /\ pc' = "done"
    /\ status' = "raised"
    /\ failedAt' = stage
    /\ sys_exit' = UncaughtExit

\* pipeline.run() is called
RunStart ==
    /\ pc = "idle"
    /\ pc' = "preprocess"
    /\ UNCHANGED <<now, storageVars, webVars, cmdVars, service, status, events, attempt, attempts,
                   vector_store_id, failedAt, sys_exit>>

\* preprocess_company_folder(): conversion failures are logged; returns True
Preprocess ==
    /\ pc = "preprocess"
    /\ \E converted \in BOOLEAN :
          StageReturns("preprocess", TRUE,
                       <<Step(1, 0)>> \o (IF converted THEN <<>>
                                          ELSE <<Error("Failed to convert")>>))
    /\ UNCHANGED <<now, storageVars, webVars, cmdVars, service, attempt, attempts, vector_store_id>>

\* upload_to_vector_store(), its command returning res
VectorUploaded(res) ==
    /\ pc = "vector"
    /\ \E W \in ProgramWrites("vector", slug, now), d \in 0..MaxDelay :
        LET fs1 == ApplyWrites(files, W, now)
            pre == <<Step(2, 0)>> \o RunCommand("vector", res)
        IN
        IF res.code # 0
        THEN /\ d = 0
             /\ files' = fs1
             /\ vector_store_id' = NoId
             /\ StageReturns("vector", FALSE,
                    pre \o <<Error("Vector store upload failed")>>)
             /\ UNCHANGED <<now, saved>>
        ELSE \E listing \in Listings(Glob(fs1, VectorIdsDir, VectorGlob)) :
             LET latest == LatestVectorStoreId(fs1, listing)
                 found == IF latest.kind = "id" THEN latest.id ELSE VsIdIn(res.out)
                 saves == latest.kind = "none" /\ found # NoId
             IN
             /\ now + d <= MaxTime
             /\ saves \/ d = 0
             /\ files' = IF saves
                         THEN VectorStoreIdSaved(fs1, slug, found, now, now + d)
                         ELSE fs1
             /\ saved' = IF saves
                         THEN Append(saved, Snapshot(VectorIdsDir, VectorFileName(Timestamp(now)),
                                                     VectorJson(found, slug, Timestamp(now)),
                                                     now + d))
                         ELSE saved
             /\ now' = now + d
             /\ IF latest.kind = "raise"
                THEN /\ StageRaises("vector", pre)
                     /\ UNCHANGED vector_store_id
                ELSE /\ vector_store_id' = found
                     /\ StageReturns("vector", found # NoId,
                            pre \o (IF found # NoId THEN <<>>
                                    ELSE <<Error("Could not determine vector store ID")>>))
    /\ UNCHANGED <<slug, canSymlink, webVars, lastOp, ret, service, attempt, attempts>>

\* upload_to_vector_store()
UploadToVectorStore ==
    /\ \E res \in RunResults : VectorUploaded(res)
    /\ UNCHANGED cmdVars

\* start_mcp_server: the --vector-store-id argument of the service command,
\* empty when the id is absent
VectorArg(id) == IF id # NoId THEN id ELSE ""

\* subprocess.Popen of the service command, by its --vector-store-id argument
McpLaunch(id) == Ev("popen", VectorArg(id), 0)

\* subprocess.Popen(cmd, shell=True, env=os.environ) of a command line that
\* ends in "&": when it does not raise, the service is a process of its own
Spawned(launched) == IF launched THEN "running" ELSE "none"

\* a start_mcp_server that never reports success
StartVerdictNever(launched) == FALSE

\* start_mcp_server(), lines 229-242: True after the sleep, False from the
\* except clause; nothing looks at the process
StartVerdict(launched) == launched

\* start_mcp_server(vector_store_id) up to time.sleep(5); when Popen raises,
\* through the except clause to its return
StartMcpServer ==
    /\ pc = "mcp"
    /\ \E launched \in BOOLEAN :
        LET pre == <<Step(3, 0), McpLaunch(vector_store_id)>> IN
        /\ service' = Spawned(launched)
        /\ IF launched
           THEN /\ events' = events \o pre \o <<Sleep(5)>>
                /\ pc' = "mcp_sleep"
                /\ UNCHANGED <<status, failedAt, sys_exit>>
           ELSE StageReturns("mcp", StartVerdict(launched),
                             pre \o <<Error("Failed to start MCP server")>>)
    /\ UNCHANGED <<now, storageVars, webVars, cmdVars, attempt, attempts, vector_store_id>>

\* time.sleep(5) is over: start_mcp_server logs success and returns
McpGraceOver ==
    /\ pc = "mcp_sleep"
    /\ StageReturns("mcp", StartVerdict(TRUE), <<>>)
    /\ UNCHANGED <<now, storageVars, webVars, cmdVars, service, attempt, attempts, vector_store_id>>

\* the service ends by itself: it fails to start, crashes or finishes
ServiceExits ==
    /\ service = "running"
    /\ service' = "exited"
    /\ UNCHANGED <<now, storageVars, webVars, cmdVars, pc, status, events, attempt, attempts,
                   vector_store_id, failedAt, sys_exit>>

\* run_quotes_extraction()
RunQuotesExtraction ==
    /\ pc = "quotes"
    /\ \E res \in RunResults :
          StageReturns("quotes", res.code = 0,
                       <<Step(4, 0)>> \o RunCommand("quotes", res)
                           \o (IF res.code = 0 THEN <<>>
                               ELSE <<Error("Quotes extraction failed")>>))
    /\ UNCHANGED <<now, storageVars, webVars, cmdVars, service, attempt, attempts, vector_store_id>>

\* a run_part_a that looks for the draft whatever the exit code
PartAVerdictArtifactOnly(exit_code, draft_found) ==
    IF draft_found THEN "complete" ELSE "draft not found"

\* a run_part_a that takes exit code 0 as success without looking for a draft
PartAVerdictExitOnly(exit_code, draft_found) ==
    IF exit_code # 0 THEN "failed" ELSE "complete"

\* run_part_a(), lines 274-287: a nonzero exit code fails the stage before
\* the draft is looked up; with exit code 0 the stage succeeds when
\* "draft_path and draft_path.exists()"
PartAVerdict(exit_code, draft_found) ==
    IF exit_code # 0 THEN "failed"
    ELSE IF draft_found THEN "complete" ELSE "draft not found"

\* the exit code run_command handed to the stage method
Exit(stage, exit_code) == Ev("exit", stage, exit_code)

\* run_part_a(vector_store_id, collection_name)
RunPartA ==
    /\ pc = "part_a"
    /\ \E res \in RunResults, W \in ProgramWrites("part_a", slug, now) :
        LET fs1 == ApplyWrites(files, W, now)
            pre == <<Step(5, 0)>> \o RunCommand("part_a", res) \o <<Exit("part_a", res.code)>>
        IN
        /\ files' = fs1
        /\ \E listing \in Listings(Glob(fs1, PartADir, DraftGlob(slug))) :
            LET draft_path == LatestPartADraft(fs1, slug, listing)
                draft_found == /\ draft_path.kind = "path"
                               /\ Exists(fs1, PartADir, draft_path.name)
                verdict == PartAVerdict(res.code, draft_found)
            IN
            CASE verdict = "failed" ->
                    StageReturns("part_a", FALSE, pre \o <<Error("Part A analysis failed")>>)
              [] verdict # "failed" /\ draft_path.kind = "raise" ->
                    StageRaises("part_a", pre)
              [] verdict = "complete" /\ draft_path.kind # "raise" ->
                    StageReturns("part_a", TRUE, pre)
              [] OTHER ->
                    StageReturns("part_a", FALSE, pre \o <<Error("Part A draft not found")>>)
    /\ UNCHANGED <<now, slug, saved, canSymlink, webVars, lastOp, ret, cmdVars, service, attempt, attempts,
                   vector_store_id>>

\* run_part_b(), lines 307-316, with the retry bound also applied to the last
\* attempt
PartBDecisionRetryingLastAttempt(exit_code, server_error, att) ==
    IF exit_code = 0 THEN "break"
    ELSE IF server_error /\ att <= max_retries THEN "continue"
    ELSE IF att = max_retries THEN "return False"
    ELSE "fall through"

\* run_part_b(), lines 307-316, with the exhaustion test ahead of the success
\* test
PartBDecisionExhaustionFirst(exit_code, server_error, att) ==
    IF att = max_retries THEN "return False"
    ELSE IF exit_code = 0 THEN "break"
    ELSE IF server_error THEN "continue"
    ELSE "fall through"

\* run_part_b(), lines 307-316: what one attempt's result does to the loop.
\* The else branch returns only on the last attempt; on an earlier one it
\* ends without a statement and the for loop takes its next iteration.
PartBDecision(exit_code, server_error, att) ==
    IF exit_code = 0 THEN "break"
    ELSE IF server_error /\ att < max_retries THEN "continue"
    ELSE IF att = max_retries THEN "return False"
    ELSE "fall through"

\* what run_part_b() looks at in the result of an attempt, and whether the
\* result is run_command's timeout pair
Seen(res) ==
    [code |-> res.code, server_error |-> ServerError(res.out),
     timeout |-> res.code = 1 /\ res.out = <<TimeoutText>>]

\* a retry that announces step 6 again
RetryPreludeWithStep(att) ==
    IF att > 0 THEN <<Step(6, 0), Warning("Retry"), Sleep(180)>> ELSE <<>>

\* run_part_b(), lines 295-297: what precedes the command of attempt att
RetryPrelude(att) ==
    IF att > 0 THEN <<Warning("Retry"), Sleep(180)>> ELSE <<>>

\* run_part_b() up to the loop
RunPartB ==
    /\ pc = "part_b"
    /\ pc' = "part_b_loop"
    /\ attempt' = 0
    /\ events' = Append(events, Step(6, 0))
    /\ UNCHANGED <<now, storageVars, webVars, cmdVars, service, status, attempts, vector_store_id, failedAt, sys_exit>>

\* one iteration of "for attempt in range(max_retries + 1)"
PartBAttempt ==
    /\ pc = "part_b_loop"
    /\ \E res \in RunResults :
        LET decision == PartBDecision(res.code, ServerError(res.out), attempt)
            pre == RetryPrelude(attempt) \o RunCommand("part_b", res)
        IN
        /\ attempts' = Append(attempts, Seen(res))
        /\ CASE decision = "break" ->
                  /\ events' = events \o pre
                  /\ pc' = "use_cases"
                  /\ UNCHANGED <<attempt, status, failedAt, sys_exit>>
             [] decision = "return False" ->
                  /\ StageReturns("part_b", FALSE,
                                  pre \o <<Error("Part B failed after 3 attempts")>>)
                  /\ UNCHANGED attempt
             [] OTHER ->
                  /\ events' = events \o pre
                        \o (IF decision = "continue"
                            THEN <<Warning("OpenAI server error, retrying...")>> ELSE <<>>)
                  /\ attempt' = attempt + 1
                  /\ pc' = IF attempt + 1 <= max_retries THEN "part_b_loop" ELSE "use_cases"
                  /\ UNCHANGED <<status, failedAt, sys_exit>>
    /\ UNCHANGED <<now, storageVars, webVars, cmdVars, service, vector_store_id>>

\* run_part_b(), step 6.5
ProcessUseCases ==
    /\ pc = "use_cases"
    /\ \E res \in RunResults, W \in ProgramWrites("use_cases", slug, now) :
        LET pre == <<Step(6, 5)>> \o RunCommand("use_cases", res)
                       \o <<Exit("use_cases", res.code)>>
        IN
        /\ files' = ApplyWrites(files, W, now)
        /\ IF res.code # 0
           THEN StageReturns("part_b", FALSE, pre \o <<Error("Use cases processing failed")>>)
           ELSE /\ events' = events \o pre
                /\ pc' = "enhance"
                /\ UNCHANGED <<status, failedAt, sys_exit>>
    /\ UNCHANGED <<now, slug, saved, canSymlink, webVars, lastOp, ret, cmdVars, service, attempt, attempts,
                   vector_store_id>>

\* an enhancement that takes the candidate the directory lists first
InputReportFirstListed(fs, candidates) == PathOf(PartBDir, candidates[1])

\* run_part_b(), lines 332-333: candidates.sort(key=st_mtime, reverse=True);
\* input_report = candidates[0]
InputReport(fs, candidates) == NewestOf(fs, PartBDir, candidates)

\* the --input argument of the enhancement command, by the timestamp that
\* ends the report's name
Input(name) == Ev("input", name.tok[Len(name.tok)], 0)

\* run_part_b(), step 6.7
EnhancePartB ==
    /\ pc = "enhance"
    /\ \E res \in RunResults, candidates \in Listings(Glob(files, PartBDir, UseCasesGlob)) :
        LET pre == <<Step(6, 7)>>
            input_report == InputReport(files, candidates)
            run == <<Input(input_report.name)>> \o RunCommand("enhance", res)
                       \o <<Exit("enhance", res.code)>>
        IN
        IF candidates = <<>>
        THEN StageReturns("part_b", TRUE, pre)
        ELSE IF input_report.kind = "raise"
        THEN StageRaises("part_b", pre)
        ELSE IF res.code # 0
        THEN StageReturns("part_b", FALSE, pre \o run \o <<Error("Part B enhancement failed")>>)
        ELSE StageReturns("part_b", TRUE, pre \o run)
    /\ UNCHANGED <<now, storageVars, webVars, cmdVars, service, attempt, attempts, vector_store_id>>

\* run_consolidation()
RunConsolidation ==
    /\ pc = "consolidation"
    /\ \E res \in RunResults, W \in ProgramWrites("consolidation", slug, now) :
        /\ files' = ApplyWrites(files, W, now)
        /\ StageReturns("consolidation", res.code = 0,
                        <<Step(7, 0)>> \o RunCommand("consolidation", res)
                            \o (IF res.code = 0 THEN <<>> ELSE <<Error("Consolidation failed")>>))
    /\ UNCHANGED <<now, slug, saved, canSymlink, webVars, lastOp, ret, cmdVars, service, attempt, attempts,
                   vector_store_id>>

\* upload_final_report_to_gdrive(report_path): what it logs; run() and
\* finalize_report() ignore what it returns
UploadOutcomes == {"unavailable", "no credentials", "error", "no id", "uploaded"}
UploadFinalReportToGdrive(outcome) ==
    <<Step(8, 0)>>
        \o (CASE outcome = "unavailable" -> <<Warning("Google API not available")>>
              [] outcome = "no credentials" -> <<Warning("Credentials not found")>>
              [] outcome = "error" -> <<Error("Drive upload failed")>>
              [] OTHER -> <<>>)

\* a finalize_report that reports what the upload returned
FinalPathIfUploaded(outcome) == outcome = "uploaded"

\* finalize_report(), lines 439-442: the upload's return value is dropped and
\* final_path is returned, a true value
FinalPath(outcome) == TRUE

\* finalize_report()
FinalizeReport ==
    /\ pc = "finalize"
    /\ \E dual \in Listings(Glob(files, FinalDir, FinalDualGlob)),
          patched \in Listings(Glob(files, FinalDir, FinalPatchedGlob)),
          consolidated \in Listings(Glob(files, FinalDir, FinalConsolidatedGlob)),
          outcome \in UploadOutcomes, d \in 0..MaxDelay :
        LET final_candidates == dual \o patched \o consolidated
            pre == <<Step(9, 0)>>
        IN
        IF final_candidates = <<>>
        THEN /\ d = 0
             /\ outcome = "uploaded"
             /\ StageReturns("finalize", FALSE, pre \o <<Error("No final report found")>>)
             /\ UNCHANGED <<now, files, saved>>
        ELSE LET latest_report == NewestOf(files, FinalDir, final_candidates) IN
             IF latest_report.kind = "raise"
             THEN /\ d = 0
                  /\ outcome = "uploaded"
                  /\ StageRaises("finalize", pre)
                  /\ UNCHANGED <<now, files, saved>>
             ELSE LET content == ReadText(files, FinalDir, latest_report.name).text IN
                  /\ now + d <= MaxTime
                  /\ files' = FinalReportSaved(files, slug, content, now, now + d)
                  /\ saved' = Append(saved, Snapshot(FinalDir,
                                                     FinalReportName(slug, Timestamp(now)),
                                                     Text(content), now + d))
                  /\ now' = now + d
                  /\ StageReturns("finalize", FinalPath(outcome),
                                  pre \o UploadFinalReportToGdrive(outcome))
    /\ UNCHANGED <<slug, canSymlink, webVars, lastOp, ret, cmdVars, service, attempt, attempts, vector_store_id>>

\* the clock while the run is under way.  A run reads the clock only to
\* stamp the files it writes, and the final directory is where a run's own
\* artifact lands beside the reports it is copied from, so the clock is
\* advanced between the consolidation reports and the run's own artifact.
ClockReaders == {"finalize"}
RunTick ==
    /\ pc \in ClockReaders
    /\ now < MaxTime
    /\ now' = now + 1
    /\ UNCHANGED <<storageVars, webVars, cmdVars, runVars>>

Init ==
    /\ StorageEmpty
    /\ slug = <<"acme">>
    /\ canSymlink = TRUE
    /\ CmdIdle
    /\ RunIdle
    /\ WebIdle

Next ==
    \/ RunStart
    \/ Preprocess
    \/ UploadToVectorStore
    \/ StartMcpServer
    \/ McpGraceOver
    \/ RunQuotesExtraction
    \/ RunPartA
    \/ RunPartB
    \/ PartBAttempt
    \/ ProcessUseCases
    \/ EnhancePartB
    \/ RunConsolidation
    \/ FinalizeReport
    \/ RunTick

Spec == Init /\ [][Next]_vars

\* the run with every step it can take eventually taken: each stage method
\* is a sequence of blocking calls, and the commands, the sleeps and the
\* upload they wait for are assumed to come back
SpecLive == Spec /\ WF_vars(Next)

\* the run beside a background service that may end at any moment
NextService ==
    \/ Next
    \/ ServiceExits

SpecService == Init /\ [][NextService]_vars

-----------------------------------------------------------------------------
(* finalize_report() on a final directory in which the consolidation       *)
(* programs have left reports of the accepted naming conventions           *)

MaxReports == 2

FinalConventions == <<FinalDualGlob, FinalPatchedGlob, FinalConsolidatedGlob>>

\* a consolidation program writes a report under one of the conventions
ProgramWritesFinal(k, c) ==
    /\ pc = "idle"
    /\ Cardinality({f \in files : f.dir = FinalDir}) < MaxReports
    /\ files' = WriteFile(files, FinalDir,
                          Name(FinalConventions[k].prefix \o <<Timestamp(now)>>, "md"),
                          Text(c), now)
    /\ UNCHANGED <<now, slug, saved, canSymlink, webVars, lastOp, ret, cmdVars, runVars>>

\* run() reaches "final_report = self.finalize_report()"
FinalizeCalled ==
    /\ pc = "idle"
    /\ pc' = "finalize"
    /\ UNCHANGED <<now, storageVars, webVars, cmdVars, service, status, events, attempt, attempts,
                   vector_store_id, failedAt, sys_exit>>

FinalizeTick ==
    /\ pc = "idle"
    /\ now < MaxTime
    /\ now' = now + 1
    /\ UNCHANGED <<storageVars, webVars, cmdVars, runVars>>

NextFinalize ==
    \/ \E k \in DOMAIN FinalConventions, c \in Contents : ProgramWritesFinal(k, c)
    \/ FinalizeCalled
    \/ FinalizeReport
    \/ FinalizeTick

SpecFinalize == Init /\ [][NextFinalize]_vars

-----------------------------------------------------------------------------
(* run_part_b() on a Part B directory in which earlier runs of the use-case *)
(* program may have left reports                                            *)

\* an earlier run of the use-case program left a report
ProgramWritesUseCases(c) ==
    /\ pc = "idle"
    /\ Cardinality({f \in files : f.dir = PartBDir}) < MaxReports
    /\ files' = WriteFile(files, PartBDir,
                          Name(UseCasesGlob.prefix \o <<Timestamp(now)>>, "md"), Text(c), now)
    /\ UNCHANGED <<now, slug, saved, canSymlink, webVars, lastOp, ret, cmdVars, runVars>>

\* run() reaches "if not self.run_part_b()"
PartBCalled ==
    /\ pc = "idle"
    /\ pc' = "part_b"
    /\ UNCHANGED <<now, storageVars, webVars, cmdVars, service, status, events, attempt, attempts,
                   vector_store_id, failedAt, sys_exit>>

NextPartB ==
    \/ \E c \in Contents : ProgramWritesUseCases(c)
    \/ FinalizeTick
    \/ PartBCalled
    \/ RunPartB
    \/ PartBAttempt
    \/ ProcessUseCases
    \/ EnhancePartB

SpecPartB == Init /\ [][NextPartB]_vars

-----------------------------------------------------------------------------
(* upload_to_vector_store() on a storage in which earlier runs for the      *)
(* company may have recorded ids; rcResult keeps what its command returned  *)

EarlierIds == {"vs_0", "vs_9"}

\* an earlier run recorded its vector store id
EarlierRunSavedId(id) ==
    /\ pc = "idle"
    /\ Cardinality({f \in files : f.dir = VectorIdsDir}) < MaxReports
    /\ files' = VectorStoreIdSaved(files, slug, id, now, now)
    /\ UNCHANGED <<now, slug, saved, canSymlink, webVars, lastOp, ret, cmdVars, runVars>>

\* run() reaches "vector_store_id = self.upload_to_vector_store()"
VectorCalled ==
    /\ pc = "idle"
    /\ pc' = "vector"
    /\ UNCHANGED <<now, storageVars, webVars, cmdVars, service, status, events, attempt, attempts,
                   vector_store_id, failedAt, sys_exit>>

\* upload_to_vector_store(), with the pair its run_command call returned
VectorUploadObserved ==
    /\ \E res \in RunResults :
          /\ VectorUploaded(res)
          /\ rcResult' = res
    /\ UNCHANGED <<rcPhase, rcArgs, child, pipe, output_lines, printed, waitStart, rcExc>>

NextVector ==
    \/ \E id \in EarlierIds : EarlierRunSavedId(id)
    \/ FinalizeTick
    \/ VectorCalled
    \/ VectorUploadObserved

SpecVector == Init /\ [][NextVector]_vars

-----------------------------------------------------------------------------
(* run_part_a() on a storage in which earlier runs for the company may have *)
(* saved drafts                                                             *)

\* an earlier run saved its draft
EarlierRunSavedDraft(c) ==
    /\ pc = "idle"
    /\ SavePartADraft(c)
    /\ UNCHANGED <<cmdVars, runVars>>

\* run() reaches "if not self.run_part_a(vector_store_id, collection_name)"
PartACalled ==
    /\ pc = "idle"
    /\ pc' = "part_a"
    /\ UNCHANGED <<now, storageVars, webVars, cmdVars, service, status, events, attempt, attempts,
                   vector_store_id, failedAt, sys_exit>>

NextPartA ==
    \/ \E c \in Contents : EarlierRunSavedDraft(c)
    \/ FinalizeTick
    \/ PartACalled
    \/ RunPartA

SpecPartA == Init /\ [][NextPartA]_vars

-----------------------------------------------------------------------------
(* preprocess_company_folder() on a data directory that holds the files the *)
(* submission brought                                                       *)

DataDir == "data"
DataNames == {Name(<<"a">>, "csv"), Name(<<"b">>, "csv"), Name(<<"a">>, "json"),
              Name(<<"notes">>, "txt")}
\* what a data file may hold; an empty file is one pandas cannot parse
DataTexts == Contents \cup {""}

\* pd.read_csv(csv_path): the frame of the text, EmptyDataError on no text
ReadCsv(content) ==
    IF content = Text("") THEN Raised("EmptyDataError")
    ELSE [kind |-> "frame", rows |-> content.text]
\* what df.to_json(path, orient='records', indent=2) writes
Records(df) == [records |-> df.rows]
\* csv_path.with_suffix('.json')
WithSuffix(name, ext) == Name(name.tok, ext)
\* company_dir.glob('*.csv')
CsvFiles(fs) == {f.name : f \in {g \in fs : g.dir = DataDir /\ g.name.ext = "csv"}}

\* the loop over csv_files, its writes landing at t: the state of the
\* directory after it and what it logged
RECURSIVE ConvertAll(_, _, _)
ConvertAll(fs, csv_files, t) ==
    IF csv_files = <<>> THEN [fs |-> fs, evs |-> <<>>]
    ELSE LET csv_path == Head(csv_files)
             json_path == WithSuffix(csv_path, "json")
             df == ReadCsv(ReadText(fs, DataDir, csv_path))
             fs1 == IF df.kind = "frame"
                    THEN Unlink(WriteFile(fs, DataDir, json_path, Records(df), t),
                                DataDir, csv_path)
                    ELSE fs
             ev == IF df.kind = "frame" THEN Ev("success", csv_path.tok[1], 0)
                   ELSE Ev("error", csv_path.tok[1], 0)
             rest == ConvertAll(fs1, Tail(csv_files), t)
         IN  [fs |-> rest.fs, evs |-> <<ev>> \o rest.evs]

\* a file of the submission is put into the company's data directory
DataFileArrives(n, c) ==
    /\ pc = "idle"
    /\ ~Present(files, DataDir, n)
    /\ files' = WriteFile(files, DataDir, n, Text(c), now)
    /\ UNCHANGED <<now, slug, saved, canSymlink, webVars, lastOp, ret, cmdVars, runVars>>

\* run() reaches "if not self.preprocess_company_folder()"
PreprocessCalled ==
    /\ pc = "idle"
    /\ pc' = "preprocess"
    /\ UNCHANGED <<now, storageVars, webVars, cmdVars, service, status, events, attempt, attempts,
                   vector_store_id, failedAt, sys_exit>>

\* preprocess_company_folder() over the directory as it is
PreprocessFolder ==
    /\ pc = "preprocess"
    /\ \E csv_files \in Listings(CsvFiles(files)) :
          LET done == ConvertAll(files, csv_files, now) IN
          /\ files' = done.fs
          /\ StageReturns("preprocess", TRUE, <<Step(1, 0)>> \o done.evs)
    /\ UNCHANGED <<now, slug, saved, canSymlink, webVars, lastOp, ret, cmdVars, service, attempt,
                   attempts, vector_store_id>>

NextPreprocess ==
    \/ \E n \in DataNames, c \in DataTexts : DataFileArrives(n, c)
    \/ PreprocessCalled
    \/ PreprocessFolder

SpecPreprocess == Init /\ [][NextPreprocess]_vars

-----------------------------------------------------------------------------
(* Specifications of the storage *)

InitStorage ==
    /\ StorageEmpty
    /\ slug \in Slugs
    /\ canSymlink \in BOOLEAN
    /\ CmdIdle
    /\ RunIdle
    /\ WebIdle

NextSaves ==
    \/ (\E c \in Contents : SaveFinalReport(c)) /\ UNCHANGED <<cmdVars, runVars>>
    \/ (\E c \in Contents : SavePartADraft(c)) /\ UNCHANGED <<cmdVars, runVars>>
    \/ (\E c \in Contents, type \in ReportTypes : SavePartBReport(c, type)) /\ UNCHANGED <<cmdVars, runVars>>
    \/ (\E id \in VectorIds : SaveVectorStoreId(id)) /\ UNCHANGED <<cmdVars, runVars>>
    \/ GetLatestFinalReport /\ UNCHANGED <<cmdVars, runVars>>
    \/ GetLatestPartADraft /\ UNCHANGED <<cmdVars, runVars>>
    \/ Tick /\ UNCHANGED <<cmdVars, runVars>>

\* the save operations and the queries alone
SpecSaves == InitStorage /\ [][NextSaves]_vars

NextLatest ==
    \/ (\E c \in Contents : SavePartADraft(c)) /\ UNCHANGED <<cmdVars, runVars>>
    \/ GetLatestPartADraft /\ UNCHANGED <<cmdVars, runVars>>
    \/ ExternalUnlink /\ UNCHANGED <<cmdVars, runVars>>
    \/ (\E c \in Contents : ProgramWritesDraft(c)) /\ UNCHANGED <<cmdVars, runVars>>
    \/ Tick /\ UNCHANGED <<cmdVars, runVars>>

\* Part A drafts with an environment that removes and writes files
SpecLatest == InitStorage /\ [][NextLatest]_vars

-----------------------------------------------------------------------------
(* save_final_report(content) statement by statement, as a reader of the    *)
(* final directory can observe it.  lastOp is the statement that ran last   *)
(* and ret holds the locals of the call under way.                          *)

\* what open(path, 'w') leaves in the file until the with block closes it
Truncated == Text("")

SaveIdle == lastOp \notin {"timestamp", "open", "close"}

\* timestamp = datetime.utcnow().strftime(...); final_file = ...
SaveTakesTimestamp(c) ==
    /\ SaveIdle
    /\ Len(saved) < MaxSaves
    /\ lastOp' = "timestamp"
    /\ ret' = [kind |-> "locals", timestamp |-> Timestamp(now), content |-> c]
    /\ UNCHANGED <<files, now, slug, saved, canSymlink, webVars>>

\* open(final_file, 'w', encoding='utf-8')
SaveOpensArtifact ==
    /\ lastOp = "timestamp"
    /\ files' = WriteFile(files, FinalDir, FinalReportName(slug, ret.timestamp),
                          Truncated, now)
    /\ lastOp' = "open"
    /\ UNCHANGED <<now, slug, saved, canSymlink, webVars, ret>>

\* f.write(content) and the end of the with block
SaveClosesArtifact ==
    /\ lastOp = "open"
    /\ files' = WriteFile(files, FinalDir, FinalReportName(slug, ret.timestamp),
                          Text(ret.content), now)
    /\ saved' = Append(saved, Snapshot(FinalDir, FinalReportName(slug, ret.timestamp),
                                       Text(ret.content), now))
    /\ lastOp' = "close"
    /\ UNCHANGED <<now, slug, canSymlink, webVars, ret>>

\* the signal file is written, and final_file returned
SaveWritesSignal ==
    /\ lastOp = "close"
    /\ files' = WriteFile(files, FinalDir, ReadySignalName(slug, ret.timestamp),
                          [path |-> PathOf(FinalDir, FinalReportName(slug, ret.timestamp))],
                          now)
    /\ lastOp' = "save_final_report"
    /\ ret' = PathOf(FinalDir, FinalReportName(slug, ret.timestamp))
    /\ UNCHANGED <<now, slug, saved, canSymlink, webVars>>

\* the clock, between any two statements
SignalTick ==
    /\ now < MaxTime
    /\ now' = now + 1
    /\ UNCHANGED <<files, slug, saved, canSymlink, webVars, lastOp, ret>>

NextSignal ==
    \/ (\E c \in Contents : SaveTakesTimestamp(c)) /\ UNCHANGED <<cmdVars, runVars>>
    \/ SaveOpensArtifact /\ UNCHANGED <<cmdVars, runVars>>
    \/ SaveClosesArtifact /\ UNCHANGED <<cmdVars, runVars>>
    \/ SaveWritesSignal /\ UNCHANGED <<cmdVars, runVars>>
    \/ SignalTick /\ UNCHANGED <<cmdVars, runVars>>

\* calls of save_final_report, one after the other
SpecSignal == InitStorage /\ [][NextSignal]_vars

-----------------------------------------------------------------------------
(* setup_directories() and the directory layout.  A directory is an entry   *)
(* of the file system under its whole path, a sequence of components;       *)
(* "company" stands for the company slug.                                    *)

Root == "/"
Directory == [dir |-> TRUE]

\* base_output, self.temp_dir and the attributes setup_directories assigns
BaseOutput == <<"outputs">>
OutputsRoot == BaseOutput \o <<"company">>
TempDir == <<"temp">>
DirPath(d) == OutputsRoot \o <<d>>

\* the list setup_directories iterates over, in its order
Layout ==
    <<OutputsRoot, BaseOutput \o <<"logs">>, DirPath("debug"), DirPath("data"),
      DirPath("reports"), DirPath(VectorIdsDir), DirPath(PartADir), DirPath(PartBDir),
      DirPath(FinalDir), TempDir>>
LayoutPaths == {Layout[i] : i \in DOMAIN Layout}

DirEntry(path) == Entry(Root, Name(path, ""), Directory, 0, NoName)
IsDir(fs, path) == DirEntry(path) \in fs
Parent(path) == SubSeq(path, 1, Len(path) - 1)
Dirs(fs) == {f \in fs : f.dir = Root}
NonDirs(fs) == {f \in fs : f.dir # Root}

\* a mkdir without exist_ok: an existing directory is an error
MkdirExclusive(fs, path) ==
    IF IsDir(fs, path) THEN [fs |-> fs, exc |-> "FileExistsError"]
    ELSE [fs |-> fs \cup {DirEntry(SubSeq(path, 1, k)) : k \in 1..Len(path)},
          exc |-> "none"]

\* Path.mkdir(parents=True, exist_ok=True): an existing directory is left
\* alone, a missing one is made after its missing parents
RECURSIVE Mkdir(_, _)
Mkdir(fs, path) ==
    IF IsDir(fs, path) THEN [fs |-> fs, exc |-> "none"]
    ELSE IF Present(fs, Root, Name(path, "")) THEN [fs |-> fs, exc |-> "FileExistsError"]
    ELSE IF Len(path) > 1 /\ ~IsDir(fs, Parent(path))
    THEN LET r == Mkdir(fs, Parent(path)) IN
         IF r.exc # "none" THEN r
         ELSE [fs |-> r.fs \cup {DirEntry(path)}, exc |-> "none"]
    ELSE [fs |-> fs \cup {DirEntry(path)}, exc |-> "none"]

\* the for loop of setup_directories over Layout[i..]: the first mkdir that
\* raises ends it
RECURSIVE MkdirAll(_, _)
MkdirAll(fs, i) ==
    IF i > Len(Layout) THEN [fs |-> fs, exc |-> "none"]
    ELSE LET r == Mkdir(fs, Layout[i]) IN
         IF r.exc # "none" THEN r ELSE MkdirAll(r.fs, i + 1)

\* setup_directories()
SetupDirectories ==
    /\ LET r == MkdirAll(files, 1) IN
        /\ files' = r.fs
        /\ ret' = IF r.exc = "none" THEN None ELSE Raised(r.exc)
    /\ lastOp' = "setup_directories"
    /\ UNCHANGED <<now, slug, saved, canSymlink, webVars>>

\* somebody else makes a directory of the layout whose parent exists
ExternalMkdir(path) ==
    /\ ~IsDir(files, path)
    /\ Len(path) = 1 \/ IsDir(files, Parent(path))
    /\ files' = files \cup {DirEntry(path)}
    /\ lastOp' = "external_mkdir"
    /\ UNCHANGED <<now, slug, saved, canSymlink, webVars, ret>>

\* the directories somebody else may have made, one of each kind: the base,
\* the company's root under it, two directories that hold files, and the
\* temporary directory
MadeByOthers == {BaseOutput, OutputsRoot, DirPath(PartADir), DirPath(FinalDir), TempDir}

\* a stage program leaves or rewrites its file in a directory of the layout
\* that exists
ProgramWritesIn(d, c) ==
    /\ IsDir(files, DirPath(d))
    /\ files' = WriteFile(files, d, Name(<<"report", "by", "program">>, "md"), Text(c), 0)
    /\ lastOp' = "program_writes"
    /\ UNCHANGED <<now, slug, saved, canSymlink, webVars, ret>>

NextDirs ==
    \/ SetupDirectories /\ UNCHANGED <<cmdVars, runVars>>
    \/ (\E path \in MadeByOthers : ExternalMkdir(path))
           /\ UNCHANGED <<cmdVars, runVars>>
    \/ (\E d \in {PartADir, FinalDir}, c \in Contents : ProgramWritesIn(d, c))
           /\ UNCHANGED <<cmdVars, runVars>>
    \/ (\E c \in Contents : IsDir(files, DirPath(FinalDir)) /\ SaveFinalReport(c))
           /\ UNCHANGED <<cmdVars, runVars>>

\* the layout, with directories and files that may be there beforehand
SpecDirs == Init /\ [][NextDirs]_vars

-----------------------------------------------------------------------------
(* The webhook server (webhook_server_cloud.py): handle_submission run by    *)
(* the worker threads of one process, a submission per company, with the     *)
(* loggers they create and the Google Drive download they stage.             *)

Companies == {"alpha", "beta"}
DriveNames == {Name(<<"deck">>, "pdf"), Name(<<"notes">>, "pdf")}

\* storage.temp_dir / "drive_download" and storage.data_dir of a company
DriveDownloadDir == TempDir \o <<"drive_download">>
CompanyDataDir(c) == BaseOutput \o <<c, "data">>

\* the CloudLogger instances: the module's base_logger and the one
\* handle_submission creates for its company
BaseLogger == [service |-> "webhook_server", company |-> ""]
HandlerLogger(c) == [service |-> "webhook_handler", company |-> c]

\* the handlers setup_logging builds for an instance: the console handler
\* with its JsonFormatter(service, company), and the file handler
ConsoleHandler(L) == [kind |-> "console", service |-> L.service, company |-> L.company]
FileHandler(L) == [kind |-> "file", service |-> L.service, company |-> ""]

\* CloudLogger.log through the instance L: self.logger is the root logger,
\* and every console handler on it formats the record with its own formatter
Logged(handlers, L, msgs) ==
    {[via |-> L, service |-> handlers[i].service, company |-> handlers[i].company,
      message |-> m] : i \in {j \in DOMAIN handlers : handlers[j].kind = "console"},
                       m \in msgs}

Worker(at, got, items, item) == [at |-> at, got |-> got, items |-> items, item |-> item]
At(c, position) == workers[c].at = position
Goes(c, position) == workers' = [workers EXCEPT ![c].at = position]

\* the server starts: base_logger = create_logger("webhook_server")
InitWebhook ==
    /\ StorageEmpty
    /\ slug = <<"acme">>
    /\ canSymlink = TRUE
    /\ CmdIdle
    /\ RunIdle
    /\ workers = [c \in Companies |-> Worker("waiting", {}, {}, NoName)]
    /\ root_handlers = <<ConsoleHandler(BaseLogger), FileHandler(BaseLogger)>>
    /\ emitted = {}

WebFrame == UNCHANGED <<now, slug, saved, canSymlink, lastOp, ret, cmdVars, runVars>>

\* a worker thread takes the company's POST: base_logger.info("Received ...")
SubmissionReceived(c) ==
    /\ At(c, "waiting")
    /\ emitted' = emitted \cup Logged(root_handlers, BaseLogger, {"Received"})
    /\ Goes(c, "clear")
    /\ UNCHANGED <<files, root_handlers>>
    /\ WebFrame

\* create_logger("webhook_handler", company_name): setup_logging reaches
\* logger.handlers.clear()
SetupClearsHandlers(c) ==
    /\ At(c, "clear")
    /\ root_handlers' = <<>>
    /\ Goes(c, "add_console")
    /\ UNCHANGED <<files, emitted>>
    /\ WebFrame

\* logger.addHandler(console_handler)
SetupAddsConsole(c) ==
    /\ At(c, "add_console")
    /\ root_handlers' = Append(root_handlers, ConsoleHandler(HandlerLogger(c)))
    /\ Goes(c, "add_file")
    /\ UNCHANGED <<files, emitted>>
    /\ WebFrame

\* logger.addHandler(file_handler)
SetupAddsFile(c) ==
    /\ At(c, "add_file")
    /\ root_handlers' = Append(root_handlers, FileHandler(HandlerLogger(c)))
    /\ Goes(c, "process")
    /\ UNCHANGED <<files, emitted>>
    /\ WebFrame

\* the submission is saved; with a Google Drive link in it the download
\* starts, without one the handler goes on to the storage statistics
SubmissionSaved(c) ==
    /\ At(c, "process")
    /\ emitted' = emitted \cup Logged(root_handlers, HandlerLogger(c), {"Processing submission"})
    /\ \E gdrive_link \in BOOLEAN :
          Goes(c, IF gdrive_link THEN "download" ELSE "stats")
    /\ UNCHANGED <<files, root_handlers>>
    /\ WebFrame

\* download_file(): one file of the company's Drive folder is written under
\* dest_dir
DownloadFile(c, n) ==
    /\ At(c, "download")
    /\ n \notin workers[c].got
    /\ files' = WriteFile(files, DriveDownloadDir, n, [drive |-> c], now)
    /\ workers' = [workers EXCEPT ![c].got = @ \cup {n}]
    /\ UNCHANGED <<root_handlers, emitted>>
    /\ WebFrame

\* try_download_gdrive_service_account returns downloaded_count > 0; on True
\* the move loop starts and gdrive_dir.rglob('*') lists the directory
DownloadReturns(c) ==
    /\ At(c, "download")
    /\ IF workers[c].got # {}
       THEN workers' = [workers EXCEPT
                ![c].at = "move",
                ![c].items = {f.name : f \in {g \in files : g.dir = DriveDownloadDir}}]
       ELSE Goes(c, "stats")
    /\ UNCHANGED <<files, root_handlers, emitted>>
    /\ WebFrame

\* the loop takes the next item: "if item.is_file()"
MoveChecksItem(c, n) ==
    /\ At(c, "move")
    /\ n \in workers[c].items
    /\ workers' = [workers EXCEPT
            ![c].items = @ \ {n},
            ![c].at = IF Present(files, DriveDownloadDir, n) THEN "rename" ELSE "move",
            ![c].item = n]
    /\ UNCHANGED <<files, root_handlers, emitted>>
    /\ WebFrame

\* item.rename(storage.data_dir / item.name); a file another thread moved in
\* the meantime raises FileNotFoundError, which ends the loop in the handler
\* of the try block
MoveRenamesItem(c) ==
    /\ At(c, "rename")
    /\ LET n == workers[c].item IN
       IF Present(files, DriveDownloadDir, n)
       THEN /\ files' = Unlink(WriteFile(files, CompanyDataDir(c), n,
                                         ReadText(files, DriveDownloadDir, n), now),
                               DriveDownloadDir, n)
            /\ emitted' = emitted \cup Logged(root_handlers, HandlerLogger(c), {"Moved downloaded file"})
            /\ Goes(c, "move")
       ELSE /\ emitted' = emitted \cup Logged(root_handlers, HandlerLogger(c), {"Google Drive download failed"})
            /\ Goes(c, "stats")
            /\ UNCHANGED files
    /\ UNCHANGED root_handlers
    /\ WebFrame

\* the listing is exhausted
MoveLoopEnds(c) ==
    /\ At(c, "move")
    /\ workers[c].items = {}
    /\ Goes(c, "stats")
    /\ UNCHANGED <<files, root_handlers, emitted>>
    /\ WebFrame

\* storage statistics, the workflow trigger and the response
SubmissionAnswered(c) ==
    /\ At(c, "stats")
    /\ emitted' = emitted \cup Logged(root_handlers, HandlerLogger(c), {"Webhook processing complete"})
    /\ Goes(c, "answered")
    /\ UNCHANGED <<files, root_handlers>>
    /\ WebFrame

NextWebhook ==
    \/ \E c \in Companies : SubmissionReceived(c)
    \/ \E c \in Companies : SetupClearsHandlers(c)
    \/ \E c \in Companies : SetupAddsConsole(c)
    \/ \E c \in Companies : SetupAddsFile(c)
    \/ \E c \in Companies : SubmissionSaved(c)
    \/ \E c \in Companies, n \in DriveNames : DownloadFile(c, n)
    \/ \E c \in Companies : DownloadReturns(c)
    \/ \E c \in Companies, n \in DriveNames : MoveChecksItem(c, n)
    \/ \E c \in Companies : MoveRenamesItem(c)
    \/ \E c \in Companies : MoveLoopEnds(c)
    \/ \E c \in Companies : SubmissionAnswered(c)

SpecWebhook == InitWebhook /\ [][NextWebhook]_vars

-----------------------------------------------------------------------------
(* CloudStorage._slugify (and slugify of the client example, the same       *)
(* expression) over company names, a name being its sequence of characters. *)

MaxNameLen == 3       \* characters of a company name

Lowercase == {"a", "b"}
Uppercase == {"A", "B"}
Digits == {"7"}
Punctuation == {"_", " ", "-"}
NonAscii == {"é"}
NameChars == Lowercase \cup Uppercase \cup Digits \cup Punctuation \cup NonAscii
CompanyNames == UNION {[1..n -> NameChars] : n \in 0..MaxNameLen}

\* the class [A-Za-z0-9]
Alnum(ch) == ch \in Lowercase \cup Uppercase \cup Digits

\* re.sub(r"[^A-Za-z0-9]+", "_", name): every maximal run of other
\* characters becomes one "_"
RECURSIVE SkipRun(_)
SkipRun(s) == IF s # <<>> /\ ~Alnum(Head(s)) THEN SkipRun(Tail(s)) ELSE s
RECURSIVE Sub(_)
Sub(s) ==
    IF s = <<>> THEN <<>>
    ELSE IF Alnum(Head(s)) THEN <<Head(s)>> \o Sub(Tail(s))
    ELSE <<"_">> \o Sub(SkipRun(s))

\* str.strip("_")
RECURSIVE LStrip(_)
LStrip(s) == IF s # <<>> /\ Head(s) = "_" THEN LStrip(Tail(s)) ELSE s
RECURSIVE RStripUnderscores(_)
RStripUnderscores(s) ==
    IF s # <<>> /\ s[Len(s)] = "_" THEN RStripUnderscores(SubSeq(s, 1, Len(s) - 1)) ELSE s
Strip(s) == RStripUnderscores(LStrip(s))

\* str.lower()
LowerOf(ch) == IF ch = "A" THEN "a" ELSE IF ch = "B" THEN "b" ELSE ch
Lower(s) == [i \in DOMAIN s |-> LowerOf(s[i])]

\* the expression without its strip("_")
SlugifyUnstripped(name) == Lower(Sub(name))

\* _slugify(name)
Slugify(name) == Lower(Strip(Sub(name)))

\* self.base_output / self.company_slug: joining the empty string gives the
\* base path itself
CompanyRoot(company_slug) ==
    IF company_slug = <<>> THEN BaseOutput ELSE BaseOutput \o <<company_slug>>

\* CloudStorage(name) computes its slug and its outputs_root
Slugified(name) ==
    /\ lastOp = "init"
    /\ lastOp' = "_slugify"
    /\ ret' = [kind |-> "slug", name |-> name, company_slug |-> Slugify(name),
               outputs_root |-> CompanyRoot(Slugify(name))]
    /\ UNCHANGED <<now, files, slug, saved, canSymlink, cmdVars, runVars, webVars>>

NextSlug == \E name \in CompanyNames : Slugified(name)

SpecSlug == Init /\ [][NextSlug]_vars

-----------------------------------------------------------------------------
(* parse_use_cases_count(request_data) of the webhook server.  A value of   *)
(* the submission is a string (its characters), an int, a float or None.    *)

candidates == <<"use_cases", "use_cases_count", "readiness_score",
                "Number of use cases to generate">>
CandidateKeys == {candidates[i] : i \in DOMAIN candidates}

Absent == [type |-> "absent"]
NoneValue == [type |-> "None"]
StrValue(chars) == [type |-> "str", chars |-> chars]
IntValue(n) == [type |-> "int", n |-> n]
FloatValue(whole, frac) == [type |-> "float", whole |-> whole, frac |-> frac]

\* what a field of the submission may hold
FieldValues ==
    {Absent, NoneValue, StrValue(<<>>), StrValue(<<"5">>), StrValue(<<" ", "1", "2", " ">>),
     StrValue(<<"x">>), StrValue(<<" ">>), IntValue(9), FloatValue(2, 5)}
Submissions == [CandidateKeys -> FieldValues]

DigitChars == <<"0", "1", "2", "3", "4", "5", "6", "7", "8", "9">>
IsDigit(ch) == \E d \in DOMAIN DigitChars : DigitChars[d] = ch
DigitOf(ch) == (CHOOSE d \in DOMAIN DigitChars : DigitChars[d] = ch) - 1

\* str(value): the decimal digits of a number
RECURSIVE Digits10(_)
Digits10(n) ==
    IF n < 10 THEN <<DigitChars[n + 1]>>
    ELSE Digits10(n \div 10) \o <<DigitChars[(n % 10) + 1]>>
Str(v) ==
    IF v.type = "str" THEN v.chars
    ELSE IF v.type = "int" THEN Digits10(v.n)
    ELSE IF v.type = "float" THEN Digits10(v.whole) \o <<".">> \o Digits10(v.frac)
    ELSE <<"N", "o", "n", "e">>

\* str.strip(): white space off both ends
RECURSIVE StripSpaces(_)
StripSpaces(s) ==
    IF s # <<>> /\ Head(s) = " " THEN StripSpaces(Tail(s))
    ELSE IF s # <<>> /\ s[Len(s)] = " " THEN StripSpaces(SubSeq(s, 1, Len(s) - 1))
    ELSE s

\* int(text): the number a non-empty run of digits denotes, ValueError on
\* anything else
RECURSIVE Decimal(_)
Decimal(s) ==
    IF s = <<>> THEN 0 ELSE Decimal(SubSeq(s, 1, Len(s) - 1)) * 10 + DigitOf(s[Len(s)])
ParseInt(s) ==
    IF s # <<>> /\ \A i \in DOMAIN s : IsDigit(s[i])
    THEN [ok |-> TRUE, n |-> Decimal(s)]
    ELSE [ok |-> FALSE, n |-> 0]

\* the loop from candidates[i] on, with a return in place of the "continue"
RECURSIVE CountOfFirstPresent(_, _)
CountOfFirstPresent(request_data, i) ==
    IF i > Len(candidates) THEN 7
    ELSE LET val == request_data[candidates[i]] IN
         IF val # Absent /\ val \notin {NoneValue, StrValue(<<>>)}
         THEN LET parsed == ParseInt(StripSpaces(Str(val))) IN
              IF parsed.ok THEN parsed.n ELSE 7
         ELSE CountOfFirstPresent(request_data, i + 1)

\* a parse_use_cases_count that gives up at the first present value
UseCasesCountOfFirstPresent(request_data) == CountOfFirstPresent(request_data, 1)

\* the loop from candidates[i] on
RECURSIVE CountFrom(_, _)
CountFrom(request_data, i) ==
    IF i > Len(candidates) THEN 7
    ELSE LET val == request_data[candidates[i]] IN
         IF val # Absent /\ val \notin {NoneValue, StrValue(<<>>)}
         THEN LET parsed == ParseInt(StripSpaces(Str(val))) IN
              IF parsed.ok THEN parsed.n ELSE CountFrom(request_data, i + 1)
         ELSE CountFrom(request_data, i + 1)

\* parse_use_cases_count(request_data)
ParseUseCasesCount(request_data) == CountFrom(request_data, 1)

\* the handler resolves the count of a submission
UseCasesCountParsed(request_data) ==
    /\ lastOp = "init"
    /\ lastOp' = "parse_use_cases_count"
    /\ ret' = [kind |-> "count", request_data |-> request_data,
               count |-> ParseUseCasesCount(request_data)]
    /\ UNCHANGED <<now, files, slug, saved, canSymlink, cmdVars, runVars, webVars>>

NextCount == \E request_data \in Submissions : UseCasesCountParsed(request_data)

SpecCount == Init /\ [][NextCount]_vars

-----------------------------------------------------------------------------
(* Properties of the storage *)

FinalSaves == {i \in DOMAIN saved : saved[i].dir = FinalDir}
LastFinalSave == saved[CHOOSE i \in FinalSaves : \A j \in FinalSaves : j <= i]

\* C8: every artifact written by a save operation is still in its directory
\* under its name with the content it was written with: no later save has
\* overwritten or deleted it (two saves of one kind within the same clock
\* second included).
C8_SavesNeverOverwrite ==
    \A i \in DOMAIN saved :
        \E f \in files :
            /\ f.dir = saved[i].dir
            /\ f.name = saved[i].name
            /\ f.content = saved[i].content

\* C9: after N >= 1 calls of save_final_report, get_latest_final_report
\* returns a path whose content is the content of the most recent save.
C9_LatestFinalIsLastSave ==
    (lastOp = "get_latest_final_report" /\ FinalSaves # {}) =>
        /\ ret.kind = "path"
        /\ ReadText(files, ret.dir, ret.name) = LastFinalSave.content

\* the versioned Part A drafts report_draft_{slug}_*.md
VersionedDrafts == Glob(files, PartADir, DraftGlob(slug)) \ {LatestLinkName(slug)}

\* C10: get_latest_part_a_draft returns (1) the pointer file when it is
\* present and its target exists; (2) otherwise the versioned draft with the
\* greatest modification time; (3) otherwise None, as a value and never as
\* an error.
C10_PartAResolutionOrder ==
    lastOp = "get_latest_part_a_draft" =>
        IF Exists(files, PartADir, LatestLinkName(slug))
        THEN ret = PathOf(PartADir, LatestLinkName(slug))
        ELSE IF VersionedDrafts # {}
        THEN /\ ret.kind = "path"
             /\ ret.name \in VersionedDrafts
             /\ \A v \in VersionedDrafts :
                    StatMtime(files, PartADir, ret.name) >= StatMtime(files, PartADir, v)
        ELSE ret = None

\* the pointer resolves, and a versioned draft other than the one it
\* resolves to is newer than that one
PointerStale ==
    /\ Exists(files, PartADir, LatestLinkName(slug))
    /\ \E v \in VersionedDrafts :
          /\ v # Target(files, PartADir, LatestLinkName(slug))
          /\ StatMtime(files, PartADir, v) > StatMtime(files, PartADir, LatestLinkName(slug))

\* C11: when the pointer exists but a versioned draft newer than the
\* pointer's target is in the directory, get_latest_part_a_draft returns the
\* versioned draft with the greatest modification time, not the pointer.
C11_StalePointerFallsBack ==
    (lastOp = "get_latest_part_a_draft" /\ PointerStale) =>
        /\ ret.kind = "path"
        /\ ret.name \in VersionedDrafts
        /\ \A v \in VersionedDrafts :
               StatMtime(files, PartADir, ret.name) >= StatMtime(files, PartADir, v)

\* the clock second a timestamped name embeds; the names of one convention
\* differ in it alone, so it orders them as their text does
SecondOf(name) ==
    CHOOSE n \in 0..MaxTime : ToString(n) = name.tok[Len(name.tok)]

\* entry x precedes entry y in "greatest modification time, then
\* lexicographically greatest filename"
NewerOrGreater(fs, dir, x, y) ==
    \/ StatMtime(fs, dir, x) > StatMtime(fs, dir, y)
    \/ /\ StatMtime(fs, dir, x) = StatMtime(fs, dir, y)
       /\ SecondOf(x) >= SecondOf(y)

\* C12: the entry get_latest_final_report returns is a function of the
\* directory contents, whatever the order of the listing: the report with
\* the greatest modification time and, among reports of equal modification
\* time, the one with the lexicographically greatest filename.
C12_LatestScanDeterministic ==
    (lastOp = "get_latest_final_report" /\ ret.kind = "path") =>
        \A r \in Glob(files, FinalDir, FinalReportGlob(slug)) :
            NewerOrGreater(files, FinalDir, ret.name, r)

-----------------------------------------------------------------------------
(* Properties of run_command *)

LaunchFailure == rcArgs.cmd \in {"notfound", "noexec"} \/ ~rcArgs.cwdOk

\* C5: a child that has not exited when the timeout has elapsed since its
\* launch is terminated by run_command, which returns (1, "TIMEOUT"): no
\* child runs past launch + timeout, and a child that ended later than that
\* was killed and reported as the timeout result, whether or not it kept its
\* output stream open.
C5_TimeoutEnforced ==
    /\ child.state = "running" => now - child.start <= rcArgs.timeout
    /\ (rcPhase = "returned" /\ child.state \in {"exited", "killed"}
            /\ child.end - child.start > rcArgs.timeout) =>
          /\ child.state = "killed"
          /\ rcResult = [code |-> 1, out |-> <<TimeoutText>>]

\* C6: run_command never raises to its caller: whatever the command, the
\* working directory and the timeout, the call ends by returning a pair
\* (exit code, output text).
C6_RunCommandNeverRaises ==
    /\ rcPhase # "raised"
    /\ rcPhase = "returned" => DOMAIN rcResult = {"code", "out"} /\ rcResult.code \in Int

\* C6 witness: a call that returned after its child was killed on timeout
C6_Witness ==
    /\ rcPhase = "returned"
    /\ rcExc = "TimeoutExpired"
    /\ child.state = "killed"

\* C7: every launch failure (command not found, permission error,
\* nonexistent working directory) is returned with exit code exactly 1, also
\* when the shell starts and cannot find or execute the command.
C7_LaunchFailureIsExitCode1 ==
    (rcPhase = "returned" /\ LaunchFailure) => rcResult.code = 1

-----------------------------------------------------------------------------
(* Properties of the run *)

StageIndex(stage) ==
    CASE stage = "preprocess" -> 1
      [] stage = "vector" -> 2
      [] stage = "mcp" -> 3
      [] stage = "quotes" -> 4
      [] stage = "part_a" -> 5
      [] stage \in {"part_b", "use_cases", "enhance"} -> 6
      [] stage = "consolidation" -> 7
      [] stage = "finalize" -> 8

\* the stage a step event belongs to, by its step number in tenths
StageOfStep(n) ==
    CASE n = 10 -> 1
      [] n = 20 -> 2
      [] n = 30 -> 3
      [] n = 40 -> 4
      [] n = 50 -> 5
      [] n \in {60, 65, 67} -> 6
      [] n = 70 -> 7
      [] n \in {80, 90} -> 8

IsStart(e) == e.type \in {"step", "cmd"}
StageOfEvent(e) ==
    IF e.type = "step" THEN StageOfStep(e.n) ELSE StageIndex(e.name)

\* the stages whose failure ends the run
HardStages == {"mcp", "quotes", "part_a", "part_b", "consolidation", "finalize"}

\* C1: the step and command events of a run appear in the order of the eight
\* stages; the first belongs to Preprocess and each later one follows either
\* an event of its own stage or the return of the stage before it; and once
\* service start, extraction, Part A, Part B, consolidation or finalize has
\* returned False the run has failed and no step or command event follows.
C1_StageOrderAndHalt ==
    /\ LET starts == SelectSeq(events, IsStart) IN
       \A k \in 1..(Len(starts) - 1) :
          StageOfEvent(starts[k]) <= StageOfEvent(starts[k + 1])
    /\ LET marks == SelectSeq(events, LAMBDA e : IsStart(e) \/ e.type = "return") IN
       \A k \in DOMAIN marks :
          IsStart(marks[k])
             => IF k = 1 THEN StageOfEvent(marks[k]) = 1
                ELSE \/ /\ IsStart(marks[k - 1])
                        /\ StageOfEvent(marks[k - 1]) = StageOfEvent(marks[k])
                     \/ /\ marks[k - 1].type = "return"
                        /\ StageIndex(marks[k - 1].name) = StageOfEvent(marks[k]) - 1
    /\ \A i \in DOMAIN events :
          (events[i].type = "return" /\ events[i].n = 0 /\ events[i].name \in HardStages)
             => /\ status = "failed"
                /\ pc = "done"
                /\ failedAt = events[i].name
                /\ \A j \in DOMAIN events : j > i => ~IsStart(events[j])

\* Part A exited nonzero and the run ended there
C1_Witness ==
    /\ status = "failed"
    /\ failedAt = "part_a"
    /\ \E i \in DOMAIN events : events[i] = Error("Part A analysis failed")
    /\ \E i \in DOMAIN events : events[i] = Returned("quotes", TRUE)

\* a failed attempt that does not carry the transient signature
NonTransientFailure(a) == a.code # 0 /\ ~a.server_error
TransientFailure(a) == a.code # 0 /\ a.server_error

IsPartBCmd(e) == e = Cmd("part_b")
IsRetryDelay(e) == e = Sleep(180)
\* the Part B commands and the 180-second delays of the run, in order
PartBTrace == SelectSeq(events, LAMBDA e : IsPartBCmd(e) \/ IsRetryDelay(e))
PartBExecutions == Len(SelectSeq(events, IsPartBCmd))
RetryDelays == Len(SelectSeq(events, IsRetryDelay))

\* C2: a Part B attempt that exits nonzero without the transient signature
\* (the timeout result included) is the last attempt, on whichever attempt it
\* occurs: no further execution of the command and no 180-second delay follow
\* it, and Part B does not go on to its later steps.
C2_NonTransientNeverRetried ==
    \A i \in DOMAIN attempts :
        NonTransientFailure(attempts[i])
           => /\ Len(attempts) = i
              /\ PartBExecutions = i
              /\ RetryDelays = i - 1
              /\ pc \notin {"use_cases", "enhance", "consolidation", "finalize"}

\* C3: three consecutive Part B attempts failing with the transient signature
\* are exactly three executions of the command with a 180-second delay before
\* the second and before the third and no other, and the run has failed at
\* Part B.
C3_ThreeTransientFailures ==
    (/\ Len(attempts) >= 3
     /\ \A i \in 1..3 : TransientFailure(attempts[i]))
       => /\ Len(attempts) = 3
          /\ PartBTrace = <<Cmd("part_b"), Sleep(180), Cmd("part_b"), Sleep(180), Cmd("part_b")>>
          /\ status = "failed"
          /\ failedAt = "part_b"
          /\ pc = "done"
          /\ events[Len(events)] = Returned("part_b", FALSE)

\* three transient failures have been made
C3_Witness ==
    /\ Len(attempts) = 3
    /\ \A i \in 1..3 : TransientFailure(attempts[i])

\* the first two attempts failed with code 1 and the transient signature and
\* the third exited with code 0
TwoTransientThenSuccess ==
    /\ Len(attempts) >= 3
    /\ \A i \in 1..2 : attempts[i].code = 1 /\ attempts[i].server_error
    /\ attempts[3].code = 0

\* C4: after two transient code-1 failures and a third attempt with code 0 the
\* Part B command has run exactly three times, the retry loop is over without
\* the exhaustion error, and the run is at use-case processing or beyond it;
\* it reaches Consolidation only after Part B returned True.
C4_ThirdAttemptSucceeds ==
    TwoTransientThenSuccess
       => /\ Len(attempts) = 3
          /\ PartBExecutions = 3
          /\ RetryDelays = 2
          /\ pc # "part_b_loop"
          /\ \A i \in DOMAIN events : events[i] # Error("Part B failed after 3 attempts")
          /\ (pc = "use_cases" \/ \E i \in DOMAIN events : events[i] = Step(6, 5))
          /\ (\E i \in DOMAIN events : events[i] = Step(7, 0))
                => \E i \in DOMAIN events : events[i] = Returned("part_b", TRUE)

\* the third attempt succeeded and the run has started Consolidation
C4_Witness ==
    /\ TwoTransientThenSuccess
    /\ \E i \in DOMAIN events : events[i] = Step(6, 5)
    /\ \E i \in DOMAIN events : events[i] = Cmd("consolidation")

\* C13: after upload_to_vector_store has returned no id (nonzero exit, or
\* exit 0 with no id determinable) the run has not failed at that stage: the
\* next event is the warning, the run's vector store id is absent, the run
\* has moved on to ServiceStart, and the service command carries no
\* --vector-store-id argument.
C13_VectorFailureIsSoft ==
    \A i \in DOMAIN events :
        events[i] = Returned("vector", FALSE)
           => /\ Len(events) > i
              /\ events[i + 1] = Warning("Continuing without vector store ID")
              /\ vector_store_id = NoId
              /\ failedAt # "vector"
              /\ (pc = "mcp" \/ \E j \in DOMAIN events : j > i /\ events[j] = Step(3, 0))
              /\ \A j \in DOMAIN events : events[j].type = "popen" => events[j].name = ""

\* the upload command exited nonzero and the run ended Succeeded
C13_Witness ==
    /\ status = "succeeded"
    /\ \E i \in DOMAIN events : events[i] = Error("Vector store upload failed")
    /\ \E i \in DOMAIN events : events[i] = Returned("vector", FALSE)
    /\ \E i \in DOMAIN events : events[i] = McpLaunch(NoId)

\* the run saved its final artifact
FinalArtifactSaved == \E i \in DOMAIN saved : saved[i].dir = FinalDir

\* C14: whenever the run has saved the local final artifact, finalize_report
\* has returned its path and the run is Succeeded, whatever the external
\* upload did (API unavailable, credentials missing, no id, an exception).
C14_UploadFailureIgnored ==
    FinalArtifactSaved
       => /\ status = "succeeded"
          /\ pc = "done"
          /\ \E i \in DOMAIN events : events[i] = Returned("finalize", TRUE)
          /\ \E i \in DOMAIN events : events[i] = Step(8, 0)

\* the upload raised after the artifact was saved
C14_Witness ==
    /\ FinalArtifactSaved
    /\ \E i \in DOMAIN events : events[i] = Error("Drive upload failed")
    /\ status = "succeeded"

\* the canonical artifacts FINAL_REPORT_{slug}_{timestamp}.md in the final
\* directory
CanonicalArtifacts ==
    {f \in files : f.dir = FinalDir /\ GlobMatch(FinalReportGlob(slug), f.name)}

\* C15: a Succeeded run has saved the canonical final artifact and the file
\* is in the final directory with the content saved; a run whose Finalize
\* found no candidate report has saved nothing, has attempted no upload and
\* is Failed at Finalize.
C15_SucceededOnlyWithArtifact ==
    /\ status = "succeeded"
          => /\ FinalArtifactSaved
             /\ \E i \in DOMAIN saved, f \in CanonicalArtifacts :
                   /\ saved[i].dir = FinalDir
                   /\ f.name = saved[i].name
                   /\ f.content = saved[i].content
    /\ (\E i \in DOMAIN events : events[i] = Error("No final report found"))
          => /\ ~FinalArtifactSaved
             /\ CanonicalArtifacts = {}
             /\ \A i \in DOMAIN events : events[i] # Step(8, 0)
             /\ status = "failed"
             /\ failedAt = "finalize"

\* consolidation exited 0 leaving no report, and Finalize failed the run
C15_Witness ==
    /\ \E i \in DOMAIN events : events[i] = Returned("consolidation", TRUE)
    /\ \E i \in DOMAIN events : events[i] = Error("No final report found")
    /\ status = "failed"

\* the candidates of the highest-priority naming convention that has any
CandidatesOf(k) == Glob(files, FinalDir, FinalConventions[k])
PreferredCandidates ==
    IF CandidatesOf(1) # {} THEN CandidatesOf(1)
    ELSE IF CandidatesOf(2) # {} THEN CandidatesOf(2)
    ELSE CandidatesOf(3)

\* C16: the report finalize_report copies into the canonical artifact is the
\* newest by modification time among the files of the highest-priority
\* naming convention present (dual-model, then responses-patched, then
\* consolidated), even when a file of a lower-priority convention is newer.
C16_ConventionPriority ==
    FinalArtifactSaved =>
        \E src \in PreferredCandidates :
            /\ \A o \in PreferredCandidates :
                   StatMtime(files, FinalDir, src) >= StatMtime(files, FinalDir, o)
            /\ \E i \in DOMAIN saved :
                   saved[i].dir = FinalDir /\ saved[i].content = ReadText(files, FinalDir, src)

\* the numbers of the step events of the run, in tenths, in order
StepEvents == SelectSeq(events, LAMBDA e : e.type = "step")
StepNumbers == [k \in DOMAIN StepEvents |-> StepEvents[k].n]

\* every stage succeeded on its first attempt
AllFirstAttempt ==
    /\ status = "succeeded"
    /\ Len(attempts) = 1
    /\ \A i \in DOMAIN events : events[i].type = "return" => events[i].n = 1
    /\ \A i \in DOMAIN events : events[i].type \notin {"error", "warning"}

\* C17: in a run where every stage succeeded on its first attempt the step
\* events carry the indices 1, 2, ..., 10 in this order, 10 being the total
\* they announce: none missing, none out of order, none repeated.
C17_StepIndicesInOrder ==
    AllFirstAttempt => StepNumbers = [k \in 1..10 |-> 10 * k]

\* get_latest_part_a_draft() can return an existing path on the directory
\* as Part A left it
DraftResolves ==
    \E listing \in Listings(Glob(files, PartADir, DraftGlob(slug))) :
        LET p == LatestPartADraft(files, slug, listing) IN
        p.kind = "path" /\ Exists(files, PartADir, p.name)

PartAExited(codes) ==
    \E i \in DOMAIN events : events[i].type = "exit" /\ events[i].name = "part_a"
                                 /\ events[i].n \in codes
PartAFailedWith(msg) ==
    /\ status = "failed"
    /\ failedAt = "part_a"
    /\ \E i \in DOMAIN events : events[i] = Error(msg)
    /\ \E i \in DOMAIN events : events[i] = Returned("part_a", FALSE)

\* C18: Part A succeeds only with both conditions: a nonzero exit code fails
\* the stage whether or not a draft is in storage, exit code 0 fails it when
\* the latest draft is absent or does not exist, and the stage returns True
\* only after exit code 0 with an existing draft.
C18_PartANeedsExitAndArtifact ==
    /\ PartAExited(ProgramExitCodes \ {0}) => PartAFailedWith("Part A analysis failed")
    /\ (PartAExited({0}) /\ ~DraftResolves) => PartAFailedWith("Part A draft not found")
    /\ (\E i \in DOMAIN events : events[i] = Returned("part_a", TRUE))
          => PartAExited({0}) /\ DraftResolves

\* Part A exited nonzero with a draft in storage, and the run failed there
C18_Witness ==
    /\ PartAExited(ProgramExitCodes \ {0})
    /\ DraftResolves
    /\ PartAFailedWith("Part A analysis failed")

\* the draft get_latest_part_a_draft() resolves to has zero length
LatestDraftEmpty ==
    /\ DraftResolves
    /\ \A listing \in Listings(Glob(files, PartADir, DraftGlob(slug))) :
          LET p == LatestPartADraft(files, slug, listing) IN
          (p.kind = "path" /\ Exists(files, PartADir, p.name))
             => ReadText(files, PartADir, p.name) = Text("")

\* C19: Part A with exit code 0 and a latest draft of zero length is a
\* failure: the run is Failed at Part A and goes no further.
C19_EmptyDraftIsFailure ==
    (PartAExited({0}) /\ LatestDraftEmpty)
       => /\ status = "failed"
          /\ failedAt = "part_a"
          /\ \A i \in DOMAIN events : events[i] # Returned("part_a", TRUE)

\* C20: a CSV file that cannot be converted during preprocessing is fatal:
\* the run is Failed at Preprocess and no step or command of vector upload
\* or a later stage follows.
C20_PreprocessFailureIsFatal ==
    \A i \in DOMAIN events :
        events[i] = Error("Failed to convert")
           => /\ status = "failed"
              /\ failedAt = "preprocess"
              /\ \A j \in DOMAIN events :
                     IsStart(events[j]) => StageOfEvent(events[j]) = 1

\* C21: The pipeline process exits with status 0 exactly when run() returned
\* True.  While run() is under way the process has not exited; once run() is
\* over the process has exited, with 0 when the run succeeded and with a
\* nonzero status when a stage failed or an exception left a stage method.
C21_ExitZeroIffRunSucceeded ==
    /\ (sys_exit = -1) <=> (pc # "done")
    /\ (sys_exit = 0) <=> (pc = "done" /\ status = "succeeded")
    /\ (pc = "done" /\ status \in {"failed", "raised"}) => sys_exit > 0

\* an exception left a stage method and the process has exited
C21_Witness ==
    /\ pc = "done"
    /\ status = "raised"
    /\ sys_exit = 1

\* C22: When run_command has returned without catching an exception, the
\* lines it forwarded and the lines of the output it returned are exactly
\* the lines the child wrote, in order and unaltered: no line is dropped, a
\* blank one included, and none is changed, trailing white space included.
C22_OutputVerbatim ==
    (rcPhase = "returned" /\ rcExc = "none")
       => /\ printed = child.wrote
          /\ rcResult.out = child.wrote

\* the artifact a ready signal file stands for
ArtifactOf(signal) == Name(signal.name.tok, "md")

\* C23: A completed save_final_report has written the artifact and a ready
\* signal file of the same stem, and in every state in which a ready signal
\* file exists its single line is the path of its artifact, and that
\* artifact exists with the full content of a save made under its name.
C23_ReadyImpliesArtifactComplete ==
    /\ lastOp = "save_final_report"
          => /\ ret.kind = "path"
             /\ Exists(files, FinalDir, ret.name)
             /\ Exists(files, FinalDir, Name(ret.name.tok, "ready"))
    /\ \A f \in files :
          (f.dir = FinalDir /\ f.name.ext = "ready")
             => /\ f.content = [path |-> PathOf(FinalDir, ArtifactOf(f))]
                /\ Exists(files, FinalDir, ArtifactOf(f))
                /\ \E i \in DOMAIN saved :
                      /\ saved[i].name = ArtifactOf(f)
                      /\ saved[i].content = ReadText(files, FinalDir, ArtifactOf(f))

\* C24: A call of setup_directories, whatever directories of the layout and
\* files are already there, does not fail, leaves every directory of the
\* layout and no other in place (the tree of a single call on an empty file
\* system), changes no file, and would change nothing if called again; and
\* no operation removes a directory of the layout.
C24_SetupDirectoriesIdempotent ==
    [][/\ lastOp' = "setup_directories"
            => /\ ret' = None
               /\ Dirs(files') = MkdirAll({}, 1).fs
               /\ \A path \in LayoutPaths : IsDir(files', path)
               /\ NonDirs(files') = NonDirs(files)
               /\ MkdirAll(files', 1).fs = files'
       /\ \A path \in LayoutPaths : IsDir(files, path) => IsDir(files', path)]_vars

\* setup_directories has run successfully over a final directory that was
\* there before with a file in it
C24_Witness ==
    /\ lastOp = "setup_directories"
    /\ ret = None
    /\ \E f \in files : f.dir = FinalDir

\* the position in events of the command of Part B draft attempt k
PartBCmdIndex(k) ==
    CHOOSE i \in DOMAIN events :
        /\ events[i] = Cmd("part_b")
        /\ Cardinality({j \in 1..i : events[j] = Cmd("part_b")}) = k

\* the event after position i is a warning or an error other than the
\* announcement that opens the next attempt
FailureLoggedAfter(i) ==
    /\ i < Len(events)
    /\ events[i + 1].type \in {"warning", "error"}
    /\ events[i + 1] # Warning("Retry")

\* C25: Every failed attempt is logged before the run acts on it.  The
\* command of each failed Part B draft attempt is followed at once by a
\* warning or error about it, ahead of the next attempt's announcement and
\* delay and of the stage's return; every stage method that returned False
\* logged an error just before; and a run that has failed holds an error.
C25_FailuresLoggedBeforeDecision ==
    /\ \A k \in DOMAIN attempts :
          attempts[k].code # 0 => FailureLoggedAfter(PartBCmdIndex(k))
    /\ \A i \in DOMAIN events :
          (events[i].type = "return" /\ events[i].n = 0)
             => i > 1 /\ events[i - 1].type = "error"
    /\ status = "failed" => \E i \in DOMAIN events : events[i].type = "error"

\* C26: Stage commands do not overlap: when a call of run_command is over,
\* returned or raised, the child it launched is no longer alive, so that the
\* command the run launches next never has a predecessor beside it.
C26_NoChildOutlivesRunCommand ==
    rcPhase \in {"returned", "raised"} => child.state # "running"

\* C27: The orchestrator starts the background service and then leaves it
\* alone.  Only a spawn that did not raise makes the service a process, and
\* then only the service itself ends it, in a step that is no step of the
\* run; when the grace period is over start_mcp_server returns True and the
\* run goes on to the next stage, the service running or not; and it
\* returns False only when the spawn raised and there is no service.
C27_ServiceLeftAlone ==
    [][/\ service' # service
            => \/ service = "none" /\ service' = "running" /\ pc = "mcp"
               \/ /\ service = "running" /\ service' = "exited"
                  /\ UNCHANGED <<pc, status, events, sys_exit>>
       /\ (pc = "mcp_sleep" /\ pc' # "mcp_sleep")
            => /\ events' = Append(events, Returned("mcp", TRUE))
               /\ pc' = "quotes"
               /\ service' = service
       /\ (pc = "mcp" /\ pc' = "done")
            => /\ service' = "none"
               /\ events'[Len(events')] = Returned("mcp", FALSE)]_vars

\* the run is over and the service is still running
C27_Witness ==
    /\ pc = "done"
    /\ status \in {"succeeded", "failed"}
    /\ service = "running"

\* the commands of the stages, the Part B draft command apart
OtherCommands == {"vector", "quotes", "part_a", "use_cases", "enhance", "consolidation"}

Launches(name) == Len(SelectSeq(events, LAMBDA e : e = Cmd(name)))

\* C28: Every run comes to an end in exactly one of the outcomes Succeeded
\* and Failed; and throughout, the Part B draft command has been executed at
\* most max_retries + 1 times, never after an attempt that exited 0, and
\* every other stage command at most once.
C28_RunTerminatesBounded ==
    /\ <>(pc = "done" /\ status \in {"succeeded", "failed"})
    /\ [](/\ Launches("part_b") <= max_retries + 1
          /\ Launches("part_b") = Len(attempts)
          /\ \A k \in DOMAIN attempts : attempts[k].code = 0 => k = Len(attempts)
          /\ \A name \in OtherCommands : Launches(name) <= 1)

\* C29: run() never raises.  When an exception has left a stage method, the
\* next and last event is the error run() logs for it, the run has ended
\* Failed at that stage, and no later stage was started.
C29_StageExceptionBecomesFailed ==
    /\ status # "raised"
    /\ \A i \in DOMAIN events :
          events[i].type = "raise"
             => /\ i + 1 = Len(events)
                /\ events[i + 1].type = "error"
                /\ pc = "done"
                /\ status = "failed"
                /\ failedAt = events[i].name

\* the step event that belongs to a launch: the command's stage or sub-step,
\* step 3 for the background service
StepOfLaunch(e) ==
    IF e.type = "popen" THEN Step(3, 0)
    ELSE CASE e.name = "vector" -> Step(2, 0)
           [] e.name = "quotes" -> Step(4, 0)
           [] e.name = "part_a" -> Step(5, 0)
           [] e.name = "part_b" -> Step(6, 0)
           [] e.name = "use_cases" -> Step(6, 5)
           [] e.name = "enhance" -> Step(6, 7)
           [] e.name = "consolidation" -> Step(7, 0)

\* C30: Every launch of a command is preceded by the step event of its
\* stage, and no step event occurs twice in a run: the retries of the Part B
\* draft command come after the one step-6 event and add none.
C30_StepOncePerStageBeforeCommands ==
    /\ \A j \in DOMAIN events :
          events[j].type \in {"cmd", "popen"}
             => \E i \in 1..(j - 1) : events[i] = StepOfLaunch(events[j])
    /\ LET steps == SelectSeq(events, LAMBDA e : e.type = "step") IN
          Cardinality({steps[i] : i \in DOMAIN steps}) = Len(steps)

\* the Part B draft command has run three times after a single step-6 event
C30_Witness ==
    /\ Launches("part_b") = 3
    /\ Len(SelectSeq(events, LAMBDA e : e = Step(6, 0))) = 1

\* run_part_b has returned, and with what
PartBReturned(ok) == \E i \in DOMAIN events : events[i] = Returned("part_b", ok)
Emitted(e) == \E i \in DOMAIN events : events[i] = e
UseCaseReports == Glob(files, PartBDir, UseCasesGlob)

\* C31: run_part_b returns True exactly when a draft attempt exited 0, the
\* use-case command then exited 0, and the enhancement command, if it was
\* run, exited 0.  The enhancement command is run, once run_part_b has got
\* that far, exactly when the Part B directory holds a processed-use-cases
\* report, and its input is then the one modified last.
C31_PartBSuccessConditions ==
    /\ (PartBReturned(TRUE) \/ PartBReturned(FALSE))
          => (PartBReturned(TRUE)
                <=> /\ \E k \in DOMAIN attempts : attempts[k].code = 0
                    /\ Emitted(Exit("use_cases", 0))
                    /\ Emitted(Cmd("enhance")) => Emitted(Exit("enhance", 0)))
    /\ Emitted(Step(6, 7)) /\ pc # "enhance"
          => (Emitted(Cmd("enhance")) <=> UseCaseReports # {})
    /\ Emitted(Cmd("enhance"))
          => \E name \in UseCaseReports :
                /\ Emitted(Input(name))
                /\ \A other \in UseCaseReports :
                      StatMtime(files, PartBDir, other) <= StatMtime(files, PartBDir, name)

\* Part B has succeeded with the enhancement run on the newer of two reports
C31_Witness ==
    /\ PartBReturned(TRUE)
    /\ Emitted(Cmd("enhance"))
    /\ Cardinality(UseCaseReports) = 2

\* the vector-id file this run saved itself, and the ones storage held when
\* the upload command had returned
OwnVectorFiles == {saved[i].name : i \in DOMAIN saved}
StoredVectorFiles == Glob(files, VectorIdsDir, VectorGlob) \ OwnVectorFiles

PartAReturned(ok) == \E i \in DOMAIN events : events[i] = Returned("part_a", ok)

\* C33: The draft Part A accepts need not come from the current run.  In
\* every execution of run_part_a whose command exits 0, the stage returns
\* True exactly when a draft is resolvable in storage afterwards; and when
\* the command has written nothing and a draft of an earlier run is
\* resolvable, the stage returns True.
C33_PartAAcceptsEarlierDraft ==
    [][(pc = "part_a" /\ pc' # "part_a" /\ PartAExited({0})')
          => /\ PartAReturned(TRUE)' <=> DraftResolves'
             /\ (files' = files /\ DraftResolves) => PartAReturned(TRUE)']_vars

\* Part A has succeeded although every draft in storage is older than the
\* run's command
C33_Witness ==
    /\ PartAReturned(TRUE)
    /\ DraftResolves
    /\ \A f \in files : f.dir = PartADir => f.mtime < now

\* the save_part_a_draft calls made so far, by their position in saved
DraftSaves == {i \in DOMAIN saved : saved[i].dir = PartADir}
LastDraftSave == saved[CHOOSE i \in DraftSaves : \A j \in DraftSaves : j <= i]

\* C34: After save_part_a_draft calls, whatever else was saved and however
\* close in time they were, get_latest_part_a_draft returns a path, and the
\* text read through it is the content of the last call.
C34_LatestDraftIsLastSave ==
    (lastOp = "get_latest_part_a_draft" /\ DraftSaves # {})
       => /\ ret.kind = "path"
          /\ Exists(files, ret.dir, ret.name)
          /\ ReadText(files, ret.dir, ret.name) = LastDraftSave.content

\* two drafts of different content were saved under one name, within one
\* clock second, and the query has answered
C34_Witness ==
    /\ lastOp = "get_latest_part_a_draft"
    /\ \E i, j \in DraftSaves :
          /\ i < j
          /\ saved[i].name = saved[j].name
          /\ saved[i].content # saved[j].content

DataFiles(fs) == {f \in fs : f.dir = DataDir}
PreprocessReturns == pc = "preprocess" /\ pc' # "preprocess"
\* the CSV f was converted by the call that just returned: its JSON file holds
\* the records of its text
ConvertedNow(f) ==
    /\ ReadCsv(f.content).kind = "frame"
    /\ Present(files', DataDir, WithSuffix(f.name, "json"))
    /\ Lookup(files', DataDir, WithSuffix(f.name, "json")).content
          = Records(ReadCsv(f.content))

\* C35: preprocess_company_folder removes a CSV file exactly when its
\* conversion succeeded, leaves every file of the data directory that is not
\* a CSV file as it was, and returns True.
C35_PreprocessFrame ==
    [][PreprocessReturns =>
         /\ \A f \in DataFiles(files) : f.name.ext = "csv" =>
                (~Present(files', DataDir, f.name) <=> ConvertedNow(f))
         /\ \A f \in DataFiles(files) : f.name.ext = "csv" /\ ~ConvertedNow(f) =>
                f \in files'
         /\ \A f \in DataFiles(files) : f.name.ext # "csv" => f \in files'
         /\ events'[Len(events')] = Returned("preprocess", TRUE)]_vars

\* C36: A file downloaded from Google Drive for one company's submission is
\* never in another company's data directory, with the submissions handled
\* concurrently by the worker threads.
C36_DownloadsStayWithTheirCompany ==
    \A f \in files : \A c \in Companies :
        f.dir = CompanyDataDir(c) => f.content = [drive |-> c]

\* C37: Every record written to stdout carries the service name and company
\* of the CloudLogger instance it was logged through.
C37_EventsCarryOwnInstance ==
    \A e \in emitted : e.service = e.via.service /\ e.company = e.via.company

SlugChars == {"a", "b", "7", "_"}
\* the name with the case of its letters changed, and with every character
\* that is no ASCII letter or digit replaced by p
LowerCased(name) == Lower(name)
Repunctuated(name, p) == [i \in DOMAIN name |-> IF Alnum(name[i]) THEN name[i] ELSE p]

IntegerFields ==
    { <<StrValue(<<"5">>), 5>>, <<StrValue(<<" ", "1", "2", " ">>), 12>>, <<IntValue(9), 9>> }
Qualifies(v) == \E p \in IntegerFields : p[1] = v
IntegerOf(v) == (CHOOSE p \in IntegerFields : p[1] = v)[2]

\* C39: parse_use_cases_count returns the integer of the first candidate key,
\* in the order of the list, whose value is present, neither None nor empty,
\* and an integer; 7 when there is none.  A submission with readiness_score
\* alone gets that score as its count.
C39_FirstIntegerCandidate ==
    lastOp = "parse_use_cases_count" =>
        LET rd == ret.request_data
            good == {i \in DOMAIN candidates : Qualifies(rd[candidates[i]])}
        IN  /\ good = {} => ret.count = 7
            /\ \A i \in good : (\A j \in good : i <= j) =>
                   ret.count = IntegerOf(rd[candidates[i]])
            /\ (Qualifies(rd["readiness_score"])
                  /\ \A k \in CandidateKeys \ {"readiness_score"} : rd[k] = Absent)
                 => ret.count = IntegerOf(rd["readiness_score"])

\* use_cases holds text that is no number, use_cases_count is None, and the
\* count came from a padded readiness_score
C39_Witness ==
    /\ lastOp = "parse_use_cases_count"
    /\ ret.request_data["use_cases"] = StrValue(<<"x">>)
    /\ ret.request_data["use_cases_count"] = NoneValue
    /\ ret.request_data["readiness_score"] = StrValue(<<" ", "1", "2", " ">>)
    /\ ret.count = 12
====
